---- MODULE Spec2Model ----
(***************************************************************************)
(* Verification model of the tracking engine of the Smart Mobility system  *)
(* (backend/app/core/ai_pipeline.py): the SORT multi-object tracker        *)
(* (KalmanBoxTracker, associate_detections_to_trackers, Sort.update) as    *)
(* it is driven, one frame at a time, by the per-source pipelines.         *)
(*                                                                         *)
(* Indices are 1-based here and 0-based in the Python source.              *)
(*                                                                         *)
(* Floating point.  Boxes are records over the integers; an IOU is the     *)
(* exact rational IouNum/IouDen and is compared with the threshold by      *)
(* cross-multiplication.  The Kalman filter (filterpy) is modelled by the  *)
(* facts of its arithmetic that decide the tracker's control flow:         *)
(*   - a new filter holds the detection it was built from, velocity 0;     *)
(*   - with velocity 0, predict() leaves the estimate where it is;         *)
(*   - update(z) with z equal to the estimate leaves it unchanged, any     *)
(*     other z moves the estimate and makes the velocity non-zero; from    *)
(*     then on the predicted box is any box (nondeterministic);            *)
(*   - a detection whose area*aspect overflows a double (kind "huge",      *)
(*     e.g. [0,0,1e200,1]) gives a state that is finite but whose box is   *)
(*     [-inf,y,inf,y]: infinite coordinates, no NaN (kind "inf");          *)
(*   - a detection whose area overflows (kind "vast", e.g.                 *)
(*     [0,0,1e200,1e200]) gives a state holding inf, whose box holds NaN   *)
(*     from creation on and is all NaN after predict() (kind "nan").       *)
(***************************************************************************)
EXTENDS Integers, Sequences, FiniteSets, TLC

VARIABLES
    count,        \* KalmanBoxTracker.count: class attribute, one per process
    trackers,     \* trackers[i]: Sort.trackers of tracker instance i
    frame_count,  \* frame_count[i]: Sort.frame_count
    max_age,      \* Sort.max_age: the max_age the trackers are constructed with
    prev,         \* prev[i]: self.trackers at the start of the last update call of i
    dets,         \* dets[i]: the detections of that call
    pos,          \* pos[i]: the boxes predict() returned in that call, one per track
    matched,      \* matched[i]: `matched` as the association returned it in that call
    ret,          \* ret[i]: the ids (trk.id+1) that call returned, in order
    issued,       \* issued[i]: the ids of the tracks i has constructed, in order
    overflows,    \* number of "huge" or "vast" detections fed to the process so far
    assoc,        \* a call of associate_detections_to_trackers: its arguments and result
    window,       \* car_smoother.window
    buffers,      \* car_smoother.buffers: track id -> the boxes held, oldest first
    smoothed,     \* the last call of car_smoother.update: its track id and return value
    passed,       \* passed[id]: every box passed to car_smoother.update for id, in order
    pipeline,     \* "backend" (SmartMobilitySystem) or "worker" (JunctionProcessor)
    scene,        \* the vehicles in view: per track id its top y and its speed
    wrong_way_violations,  \* self.wrong_way_violations
    checked,      \* checked[id]: the last check_wrong_way call for id, position and result
    violation_log,  \* the track ids log_violation_enhanced was called for, in order
    active_emergency_vehicles,  \* self.active_emergency_vehicles: track id -> emergency id
    emergency_log,  \* the calls made to the database for emergency vehicles, in order
    db_next,        \* the id the emergency_vehicles table gives its next row
    best_text,      \* plate_smoother.best_text: track id -> text and score
    reads,          \* reads[id]: the (text, score) of every update_text call for id
    got,            \* the last call of get_best_text: its track id and return value
    signal,         \* the last call of calculate_signal_duration: arguments and result
    ambulance_priority_active,  \* traffic_controller.ambulance_priority_active
    prev_positions,  \* speed_estimator.prev_positions: track id -> box centre
    speeds,          \* speed_estimator.speeds: track id -> km/h
    speed,           \* the last call of speed_estimator.update and its return value
    observed,        \* observed[id]: every box passed to speed_estimator.update for id
    clock,           \* time.time(), in whole seconds
    last_log_time,   \* JunctionProcessor.last_log_time
    loop,            \* the frame loop: running or not, frames processed, reads
                     \* that failed, CAP_PROP_POS_FRAMES
    sync_log,        \* the calls of db.log_traffic_data: frame, times, outcome
    solver,          \* the assignment solvers of the process: lap and scipy
    assigned,        \* the matching step of a call of the association
    track_log,       \* per track id of tracker 1: the frame it was created on
                     \* and the frames update() ran on it
    vehicle_speeds,  \* JunctionProcessor.vehicle_speeds: track id -> km/h
    telemetry,       \* the last frame of the worker: its tracks, whether it
                     \* synced, and the avg_speed it sent
    retry,           \* a call of a function wrapped by retry_on_failure: the
                     \* arguments of the decorator, what the function does on
                     \* each invocation, and what the wrapper did
    error_count,     \* ErrorHandler.error_count
    handled          \* the last call of a method of the ErrorHandler, the
                     \* calls and resets so far, the video errors handled
                     \* since construction or the last reset, and
                     \* error_count before the call

sortVars == <<count, trackers, frame_count, max_age, prev, dets, pos, matched,
              ret, issued, overflows>>

\* the state outside the tracker, left alone by the tracker's steps
smootherVars == <<window, buffers, smoothed, passed>>
wrongWayVars == <<pipeline, scene, wrong_way_violations, checked, violation_log>>
emergencyVars == <<active_emergency_vehicles, emergency_log, db_next>>
plateVars == <<best_text, reads, got>>
signalVars == <<signal, ambulance_priority_active>>
speedVars == <<prev_positions, speeds, speed, observed>>
loopVars == <<clock, last_log_time, loop, sync_log>>
solverVars == <<solver, assigned>>
historyVars == <<track_log>>
averageVars == <<vehicle_speeds, telemetry>>
handlerVars == <<error_count, handled>>
serviceVars == <<averageVars, retry, handlerVars>>
workerVars == <<speedVars, loopVars, solverVars, historyVars, serviceVars>>
restVars == <<assoc, smootherVars, wrongWayVars, emergencyVars, plateVars,
              signalVars, workerVars>>

vars == <<sortVars, restVars>>

-----------------------------------------------------------------------------
(* Bounds of the model *)

MaxFrames == 4     \* update calls per process
MaxDets == 2       \* detections per frame of a general scene
MaxTracks == 3     \* live tracks per tracker
MaxAgeBound == 2   \* largest max_age a tracker is constructed with
MaxOverflows == 1  \* overflow-sized ("huge", "vast") detections per process

(* Program constants *)

backend_window == 30   \* BoxSmoother(window=30), the backend's car_smoother
worker_window == 10    \* BoxSmoother(window=10), the worker's car_smoother
min_history == 20      \* check_wrong_way: len(history) < 20 returns False
up_threshold == 50     \* check_wrong_way: y_new < y_old - 50
standard_green_duration == 30   \* TrafficController.standard_green_duration
min_green_duration == 10        \* TrafficController.min_green_duration
max_green_duration == 60        \* TrafficController.max_green_duration
emergency_duration == 60        \* the duration of rule 1
high_density == 15              \* rule 2: lane_density > 15
low_density == 5                \* rule 3: lane_density < 5
fps == 10                       \* config.SPEED_CALCULATION_FPS
pixels_per_meter == 50          \* config.PIXELS_PER_METER
LOG_INTERVAL == 5               \* config.LOG_INTERVAL, seconds

min_hits == 3      \* Sort(min_hits=3)
ThrNum == 3        \* iou_threshold = 0.3 = ThrNum / ThrDen
ThrDen == 10

Insts == {1, 2}    \* tracker instances (one per source / websocket connection)

-----------------------------------------------------------------------------
(* Boxes *)

Bx(k, a, b, c, d) == [kind |-> k, x1 |-> a, y1 |-> b, x2 |-> c, y2 |-> d]

BoxW == Bx("fin", 0, 0, 30, 1)
BoxX == Bx("fin", 0, 0, 60, 1)      \* IOU(W,X) = 30/60
BoxY == Bx("fin", 31, 0, 100, 1)    \* IOU(X,Y) = 29/100, W and Y disjoint
BoxZ == Bx("fin", 200, 0, 260, 1)   \* disjoint from the others
DetHuge == Bx("huge", 0, 0, 0, 0)   \* [0,0,1e200,1]: area*aspect overflows
DetVast == Bx("vast", 0, 0, 0, 0)   \* [0,0,1e200,1e200]: area overflows
InfBox == Bx("inf", 0, 0, 0, 0)     \* a box with +/-inf coordinates and no NaN
NaNBox == Bx("nan", 0, 0, 0, 0)     \* a box with a NaN coordinate

Boxes == {BoxW, BoxX, BoxY, BoxZ}
DetBoxes == <<DetHuge, DetVast, BoxW, BoxX, BoxY>>   \* a general scene
Objects == <<BoxW, BoxY, BoxZ>>     \* a scene of three objects that never overlap

Max(a, b) == IF a >= b THEN a ELSE b
Min(a, b) == IF a <= b THEN a ELSE b

RECURSIVE SortedSeq(_)
SortedSeq(S) ==
    IF S = {} THEN << >>
    ELSE LET m == CHOOSE x \in S : \A y \in S : x <= y
         IN  <<m>> \o SortedSeq(S \ {m})

(* iou_batch, one entry: the IOU of bb_test against bb_gt as IouNum/IouDen.  *)
(* A "huge" or "vast" detection against a pixel-sized box has an IOU below   *)
(* 1e-150: it is 0 here.                                                     *)
IouNum(bb_test, bb_gt) ==
    IF bb_test.kind # "fin" \/ bb_gt.kind # "fin" THEN 0
    ELSE LET xx1 == Max(bb_test.x1, bb_gt.x1)
             yy1 == Max(bb_test.y1, bb_gt.y1)
             xx2 == Min(bb_test.x2, bb_gt.x2)
             yy2 == Min(bb_test.y2, bb_gt.y2)
             w == Max(0, xx2 - xx1)
             h == Max(0, yy2 - yy1)
         IN  w * h

IouDen(bb_test, bb_gt) ==
    IF bb_test.kind # "fin" \/ bb_gt.kind # "fin" THEN 1
    ELSE (bb_test.x2 - bb_test.x1) * (bb_test.y2 - bb_test.y1)
         + (bb_gt.x2 - bb_gt.x1) * (bb_gt.y2 - bb_gt.y1)
         - IouNum(bb_test, bb_gt)

-----------------------------------------------------------------------------
(* Association *)

RECURSIVE Gcd(_, _)
Gcd(a, b) == IF b = 0 THEN a ELSE Gcd(b, a % b)

\* a rational <<num, den>> in lowest terms, den > 0
Rat(n, d) == LET g == Gcd(n, d) IN <<n \div g, d \div g>>
RatAdd(p, q) == Rat(p[1] * q[2] + q[1] * p[2], p[2] * q[2])
RatGE(p, q) == p[1] * q[2] >= q[1] * p[2]

\* iou_batch(detections, trks): the IOU matrix, entry [d][t] a rational
iou_batch(detections, trks) ==
    [d \in 1..Len(detections) |->
        [t \in 1..Len(trks) |->
            Rat(IouNum(detections[d], trks[t]), IouDen(detections[d], trks[t]))]]

\* the sum of iou_matrix over the pairs <<d, t>> of an assignment
RECURSIVE TotalIou(_, _)
TotalIou(iou_matrix, A) ==
    IF A = {} THEN <<0, 1>>
    ELSE LET m == CHOOSE m \in A : TRUE
         IN  RatAdd(iou_matrix[m[1]][m[2]], TotalIou(iou_matrix, A \ {m}))

\* the complete assignments of an nd x nt cost matrix: min(nd, nt) pairs, no
\* row and no column used twice
FullAssignments(nd, nt) ==
    IF nd <= nt
    THEN { {<<d, f[d]>> : d \in 1..nd} :
             f \in {g \in [1..nd -> 1..nt] :
                      \A a, b \in 1..nd : a # b => g[a] # g[b]} }
    ELSE { {<<f[t], t>> : t \in 1..nt} :
             f \in {g \in [1..nt -> 1..nd] :
                      \A a, b \in 1..nt : a # b => g[a] # g[b]} }

(* linear_assignment(-iou_matrix): lap.lapjv(extend_cost=True), or scipy's   *)
(* linear_sum_assignment when lap is missing.  Both return a complete        *)
(* assignment of minimal total cost (maximal total IOU); which one among     *)
(* equals is the solver's choice, so the result is any of them.              *)
linear_assignment(iou_matrix, nd, nt) ==
    LET All == FullAssignments(nd, nt)
        totals == {TotalIou(iou_matrix, A) : A \in All}
        best == CHOOSE b \in totals : \A c \in totals : RatGE(b, c)
    IN  {A \in All : TotalIou(iou_matrix, A) = best}

\* the rows of matched_indices, in the order of the array (by detection index)
PairSeq(mi) ==
    LET ds == SortedSeq({m[1] : m \in mi})
    IN  [k \in 1..Len(ds) |-> CHOOSE m \in mi : m[1] = ds[k]]

\* variant: a gate at 1/4 instead of iou_threshold
BelowQuarter(r) == r[1] * 4 < r[2]

\* iou_matrix[d][t] > iou_threshold, < iou_threshold
Above(r) == r[1] * ThrDen > ThrNum * r[2]
Below(r) == r[1] * ThrDen < ThrNum * r[2]

\* np.where(a) for a = (iou_matrix > iou_threshold), line 113
AboveSet(iou_matrix, nd, nt) ==
    {m \in (1..nd) \X (1..nt) : Above(iou_matrix[m[1]][m[2]])}

\* a.sum(1).max() == 1 and a.sum(0).max() == 1 (line 114): a is not empty and
\* no row and no column of a holds two entries
FastPath(a) ==
    /\ a # {}
    /\ \A m1, m2 \in a : (m1[1] = m2[1] \/ m1[2] = m2[2]) => m1 = m2

\* the values matched_indices can take (lines 112-119), as sets of <<d, t>>
MatchedIndices(iou_matrix, nd, nt) ==
    IF Min(nd, nt) > 0
    THEN IF FastPath(AboveSet(iou_matrix, nd, nt))
         THEN {AboveSet(iou_matrix, nd, nt)}
         ELSE linear_assignment(iou_matrix, nd, nt)
    ELSE {{}}

\* variant: a pair under the threshold is dropped and not listed as unmatched
AssociateDropLow(iou_matrix, nd, nt, matched_indices) ==
    LET rows == PairSeq(matched_indices)
        notlow(m) == ~Below(iou_matrix[m[1]][m[2]])
    IN  [matches |-> SelectSeq(rows, notlow),
         unmatched_detections |->
             SortedSeq((1..nd) \ {m[1] : m \in matched_indices}),
         unmatched_trackers |->
             SortedSeq((1..nt) \ {m[2] : m \in matched_indices})]

(* Lines 120-139 of associate_detections_to_trackers, given iou_matrix and   *)
(* the value of matched_indices: matches, unmatched_detections and           *)
(* unmatched_trackers, in array order.                                       *)
Associate(iou_matrix, nd, nt, matched_indices) ==
    LET rows == PairSeq(matched_indices)
        low(m) == Below(iou_matrix[m[1]][m[2]])
        notlow(m) == ~low(m)
        rejected == SelectSeq(rows, low)
    IN  [matches |-> SelectSeq(rows, notlow),
         unmatched_detections |->
             SortedSeq((1..nd) \ {m[1] : m \in matched_indices})
             \o [k \in 1..Len(rejected) |-> rejected[k][1]],
         unmatched_trackers |->
             SortedSeq((1..nt) \ {m[2] : m \in matched_indices})
             \o [k \in 1..Len(rejected) |-> rejected[k][2]]]

\* variant: the early return for an empty track array hands back its second
\* and third value in each other's place
associateSwapped(detections, trks) ==
    IF Len(trks) = 0
    THEN {[matches |-> << >>,
           unmatched_detections |-> << >>,
           unmatched_trackers |-> [k \in 1..Len(detections) |-> k]]}
    ELSE LET iou_matrix == iou_batch(detections, trks)
             nd == Len(detections)
             nt == Len(trks)
         IN  {Associate(iou_matrix, nd, nt, mi) :
                mi \in MatchedIndices(iou_matrix, nd, nt)}

\* the results associate_detections_to_trackers(detections, trks) can return
associate_detections_to_trackers(detections, trks) ==
    IF Len(trks) = 0
    THEN {[matches |-> << >>,
           unmatched_detections |-> [k \in 1..Len(detections) |-> k],
           unmatched_trackers |-> << >>]}
    ELSE LET iou_matrix == iou_batch(detections, trks)
             nd == Len(detections)
             nt == Len(trks)
         IN  {Associate(iou_matrix, nd, nt, mi) :
                mi \in MatchedIndices(iou_matrix, nd, nt)}

-----------------------------------------------------------------------------
(* The inputs of the model *)

\* the number of overflow-sized detections of a frame
Overflows(detections) ==
    Cardinality({k \in 1..Len(detections) : detections[k].kind # "fin"})

\* the sublists of bs[k..] with at most n entries
RECURSIVE SubLists(_, _, _)
SubLists(bs, k, n) ==
    IF k > Len(bs) \/ n = 0 THEN {<< >>}
    ELSE SubLists(bs, k + 1, n)
         \cup {<<bs[k]>> \o r : r \in SubLists(bs, k + 1, n - 1)}

\* the detection lists of a frame of a general scene: up to MaxDets of
\* DetBoxes, with no more overflow-sized ones than a whole run may hold
DetInputs ==
    {d \in SubLists(DetBoxes, 1, MaxDets) : Overflows(d) <= MaxOverflows}

\* the detection lists of a frame of the three objects: any of them may be
\* missed by the detector
ObjectInputs == SubLists(Objects, 1, Len(Objects))

\* the arrays of finite predicted boxes association can be called with
TrkInputs == UNION {[1..n -> Boxes] : n \in 0..MaxTracks}

\* f itself, held as an explicit table of its values
Tabulated(f) == f @@ << >>

(* associate_detections_to_trackers over the inputs of the model.  It is a   *)
(* pure function of (detections, trks), so each value is computed once.      *)
Association ==
    Tabulated([d \in DetInputs \cup ObjectInputs |->
        Tabulated([t \in TrkInputs |-> associate_detections_to_trackers(d, t)])])

-----------------------------------------------------------------------------
(* KalmanBoxTracker *)

\* convert_x_to_bbox of the state __init__ builds from bbox (lines 78, 59-63)
InitState(bbox) ==
    IF bbox.kind = "huge" THEN InfBox
    ELSE IF bbox.kind = "vast" THEN NaNBox
    ELSE bbox

\* variant: a constructor that does not take its id from the counter
KalmanBoxTrackerSlot(bbox, cnt) ==
    [id |-> 0, time_since_update |-> 0, hits |-> 0, hit_streak |-> 0,
     age |-> 0, history |-> 0, x |-> InitState(bbox), moving |-> FALSE]

\* KalmanBoxTracker.__init__(bbox) when KalmanBoxTracker.count is cnt
KalmanBoxTracker(bbox, cnt) ==
    [id |-> cnt, time_since_update |-> 0, hits |-> 0, hit_streak |-> 0,
     age |-> 0, history |-> 0, x |-> InitState(bbox), moving |-> FALSE]

\* the boxes kf.predict() followed by convert_x_to_bbox can give for trk
KfPredict(trk) ==
    IF trk.x.kind # "fin" THEN {trk.x}
    ELSE IF trk.moving THEN Boxes
    ELSE {trk.x}

\* variant: a predict that never resets hit_streak
predictKeepStreak(trk, p) ==
    [trk EXCEPT !.age = @ + 1,
                !.time_since_update = @ + 1,
                !.history = @ + 1,
                !.x = p]

\* KalmanBoxTracker.predict, p the predicted box; history is len(self.history)
predict(trk, p) ==
    [trk EXCEPT !.age = @ + 1,
                !.hit_streak = IF trk.time_since_update > 0 THEN 0 ELSE @,
                !.time_since_update = @ + 1,
                !.history = @ + 1,
                !.x = p]

\* the estimates kf.update(convert_bbox_to_z(bbox)) can leave in trk
KfUpdate(trk, bbox) ==
    IF trk.x.kind # "fin" THEN {trk.x}
    ELSE IF bbox = trk.x THEN {trk.x}
    ELSE {trk.x, bbox}

\* variant: an update that does not count the hit into hit_streak
updateKeepStreak(trk, bbox, nx) ==
    [trk EXCEPT !.time_since_update = 0,
                !.history = 0,
                !.hits = @ + 1,
                !.x = nx,
                !.moving = @ \/ (trk.x.kind = "fin" /\ bbox # trk.x)]

\* variant: an update that keeps the predicted boxes of self.history
updateKeepHistory(trk, bbox, nx) ==
    [trk EXCEPT !.time_since_update = 0,
                !.hits = @ + 1,
                !.hit_streak = @ + 1,
                !.x = nx,
                !.moving = @ \/ (trk.x.kind = "fin" /\ bbox # trk.x)]

\* KalmanBoxTracker.update(bbox), nx the corrected estimate
update(trk, bbox, nx) ==
    [trk EXCEPT !.time_since_update = 0,
                !.history = 0,
                !.hits = @ + 1,
                !.hit_streak = @ + 1,
                !.x = nx,
                !.moving = @ \/ (trk.x.kind = "fin" /\ bbox # trk.x)]

-----------------------------------------------------------------------------
(* Sort *)

\* variants of line 171: without the start-up clause; with the start-up
\* clause ending one frame earlier
ConfirmedByStreak(trk, fc) ==
    /\ trk.time_since_update < 1
    /\ trk.hit_streak >= min_hits

ConfirmedBefore(trk, fc) ==
    /\ trk.time_since_update < 1
    /\ (trk.hit_streak >= min_hits \/ fc < min_hits)

\* variant of line 171: hits in place of hit_streak
ConfirmedByHits(trk, fc) ==
    /\ trk.time_since_update < 1
    /\ (trk.hits >= min_hits \/ fc <= min_hits)

\* variant of line 171: without the test of time_since_update
ConfirmedCoasting(trk, fc) ==
    trk.hit_streak >= min_hits \/ fc <= min_hits

\* the condition of line 171
Confirmed(trk, fc) ==
    /\ trk.time_since_update < 1
    /\ (trk.hit_streak >= min_hits \/ fc <= min_hits)

\* variant of line 174: expiry one frame early
ExpiredAt(trk, ma) == trk.time_since_update >= ma

\* the condition of line 174
Expired(trk, ma) == trk.time_since_update > ma

Pop(s, i) == [k \in 1..(Len(s) - 1) |-> IF k < i THEN s[k] ELSE s[k + 1]]

(* The loop of lines 168-175 over reversed(self.trackers), i the (1-based)   *)
(* index of the current element: collects ret, pops the expired tracks.      *)
RECURSIVE RetLoop(_, _, _, _, _)
RetLoop(trs, i, r, fc, ma) ==
    IF i < 1 \/ i > Len(trs) THEN [trackers |-> trs, ret |-> r]
    ELSE LET trk == trs[i]
             r2 == IF Confirmed(trk, fc) THEN Append(r, trk.id + 1) ELSE r
             trs2 == IF Expired(trk, ma) THEN Pop(trs, i) ELSE trs
         IN  RetLoop(trs2, i - 1, r2, fc, ma)

\* to_del (line 157-158): the tracks whose predicted box holds a NaN
ToDel(p) == {t \in DOMAIN p : p[t].kind = "nan"}

\* the rows np.ma.compress_rows(np.ma.masked_invalid(trks)) keeps (line 159):
\* those without NaN and without inf, as indices into the predicted tracks
FiniteRows(p) == SortedSeq({t \in DOMAIN p : p[t].kind = "fin"})

\* self.trackers after the pops of lines 160-161, as indices into the
\* predicted tracks
KeptTracks(p) == SortedSeq(DOMAIN p \ ToDel(p))

\* self.trackers[m[1]] of line 164: the position in self.trackers (after the
\* pops) that column t of trks is taken to mean
UpdatedIndex(t) == t

\* the sequences that take their k-th entry from the k-th set of ss
RECURSIVE SeqProduct(_)
SeqProduct(ss) ==
    IF ss = << >> THEN {<< >>}
    ELSE {<<h>> \o t : h \in Head(ss), t \in SeqProduct(Tail(ss))}

(* Sort.update(dets) on tracker instance i, in a run of at most `frames`     *)
(* calls                                                                     *)
SortUpdateWithin(i, detections, frames) ==
    /\ frame_count[1] + frame_count[2] < frames
    /\ overflows + Overflows(detections) <= MaxOverflows
    /\ overflows' = overflows + Overflows(detections)
    /\ \E p \in SeqProduct([t \in 1..Len(trackers[i]) |-> KfPredict(trackers[i][t])]) :
         LET predicted == [t \in 1..Len(p) |-> predict(trackers[i][t], p[t])]
             rows == FiniteRows(p)
             trks == [k \in 1..Len(rows) |-> p[rows[k]]]
             kept == KeptTracks(p)
             popped == [k \in 1..Len(kept) |-> predicted[kept[k]]]
         IN  \E a \in Association[detections][trks] :
               LET hit == [k \in 1..Len(popped) |->
                             {m \in 1..Len(a.matches) :
                                 UpdatedIndex(a.matches[m][2]) = k}]
                   det == [k \in 1..Len(popped) |->
                             IF hit[k] = {} THEN NaNBox
                             ELSE detections[a.matches[CHOOSE m \in hit[k] : TRUE][1]]]
                   ud == a.unmatched_detections
                   new == [k \in 1..Len(ud) |->
                             KalmanBoxTracker(detections[ud[k]], count + k - 1)]
               IN  /\ Len(popped) + Len(ud) <= MaxTracks
                   /\ \E nx \in SeqProduct([k \in 1..Len(popped) |->
                                              IF hit[k] = {} THEN {popped[k].x}
                                              ELSE KfUpdate(popped[k], det[k])]) :
                        LET updated == [k \in 1..Len(popped) |->
                                          IF hit[k] = {} THEN popped[k]
                                          ELSE update(popped[k], det[k], nx[k])]
                            all == updated \o new
                            out == RetLoop(all, Len(all), << >>,
                                           frame_count[i] + 1, max_age)
                        IN  /\ frame_count' = [frame_count EXCEPT ![i] = @ + 1]
                            /\ count' = count + Len(ud)
                            /\ issued' = [issued EXCEPT ![i] =
                                             @ \o [k \in 1..Len(ud) |-> new[k].id]]
                            /\ trackers' = [trackers EXCEPT ![i] = out.trackers]
                            /\ ret' = [ret EXCEPT ![i] = out.ret]
                            /\ prev' = [prev EXCEPT ![i] = trackers[i]]
                            /\ dets' = [dets EXCEPT ![i] = detections]
                            /\ pos' = [pos EXCEPT ![i] = p]
                            /\ matched' = [matched EXCEPT ![i] = a.matches]
                            /\ UNCHANGED max_age

(* Sort.update(dets) on tracker instance i *)
SortUpdate(i, detections) == SortUpdateWithin(i, detections, MaxFrames)

InitSort ==
    /\ count = 0
    /\ trackers = [i \in Insts |-> << >>]
    /\ frame_count = [i \in Insts |-> 0]
    /\ max_age \in 1..MaxAgeBound
    /\ prev = [i \in Insts |-> << >>]
    /\ dets = [i \in Insts |-> << >>]
    /\ pos = [i \in Insts |-> << >>]
    /\ matched = [i \in Insts |-> << >>]
    /\ ret = [i \in Insts |-> << >>]
    /\ issued = [i \in Insts |-> << >>]
    /\ overflows = 0

\* the three arrays the association returns, all empty
NoResult ==
    [matches |-> << >>, unmatched_detections |-> << >>,
     unmatched_trackers |-> << >>]

\* no call of the association on its own has been made
NoCall ==
    [detections |-> << >>, trackers |-> << >>, called |-> FALSE,
     result |-> NoResult]

\* the return value of no call of BoxSmoother.update
NoBox == [track_id |-> 0, bbox |-> << >>]

\* BoxSmoother(window=w), before its first update
BoxSmootherInit(w) ==
    /\ window = w
    /\ buffers = << >>
    /\ smoothed = NoBox
    /\ passed = << >>

\* the track loop of a pipeline, before its first frame
TrackLoopInit(p) ==
    /\ pipeline = p
    /\ scene = [frames |-> 0, turns |-> 0, y |-> << >>, v |-> << >>]
    /\ wrong_way_violations = << >>
    /\ checked = << >>
    /\ violation_log = << >>

\* JunctionProcessor.active_emergency_vehicles = {}, an emergency_vehicles
\* table whose next row gets id 1
EmergencyInit ==
    /\ active_emergency_vehicles = << >>
    /\ emergency_log = << >>
    /\ db_next = 1

\* PlateSmoother(), before its first call
PlateSmootherInit ==
    /\ best_text = << >>
    /\ reads = << >>
    /\ got = [track_id |-> 0, after |-> 0, text |-> "", score |-> 0]

\* TrafficController(), before its first call
TrafficControllerInit ==
    /\ signal = [called |-> FALSE, by |-> "", flagged |-> 0,
                 after_emergency |-> FALSE, lane_density |-> 0,
                 ambulance_detected |-> FALSE,
                 action |-> "", duration |-> 0, reason |-> ""]
    /\ ambulance_priority_active = FALSE

\* SpeedEstimator(fps, pixels_per_meter), before its first update
SpeedEstimatorInit ==
    /\ prev_positions = << >>
    /\ speeds = << >>
    /\ speed = [called |-> FALSE, track_id |-> 0, returned |-> <<0, 1>>]
    /\ observed = << >>

\* both solvers are installed and work
Installed == [lap |-> "ok", scipy |-> "ok"]

\* no matching step has run
NotAssigned == [called |-> FALSE, solved |-> FALSE, raised |-> FALSE,
                matched_indices |-> {}]

\* a process with the solvers env, before a call of the association
SolverInit(env) ==
    /\ solver = env
    /\ assigned = NotAssigned

StartClock == 10   \* time.time() when the frame loop starts

\* the frame loop of a pipeline before its first read; last_log_time = 0
FrameLoopInit ==
    /\ clock = StartClock
    /\ last_log_time = 0
    /\ loop = [pc |-> "running", frames |-> 0, failed |-> 0, position |-> 0]
    /\ sync_log = << >>

\* the parts of JunctionProcessor outside the track loop, before the first frame
\* self.vehicle_speeds = {} (line 208) and no frame processed; no call of a
\* wrapped function; ErrorHandler.__init__ (error_count = 0) and no call of it
ServiceInit ==
    /\ vehicle_speeds = << >>
    /\ telemetry = [frames |-> 0, tracks |-> {}, synced |-> FALSE,
                    avg_speed |-> <<0, 1>>]
    /\ retry = [pc |-> "idle", max_retries |-> 0, delay |-> <<0, 1>>,
                backoff |-> <<1, 1>>, exceptions |-> << >>, outcomes |-> << >>,
                invocations |-> 0, slept |-> << >>, value |-> 0,
                exception |-> [type |-> "none", from |-> 0]]
    /\ error_count = 0
    /\ handled = [op |-> "none", returned |-> TRUE, calls |-> 0, resets |-> 0,
                  since |-> 0, before |-> 0]

WorkerInit ==
    /\ SpeedEstimatorInit
    /\ FrameLoopInit
    /\ SolverInit(Installed)
    /\ track_log = [born |-> << >>, hit |-> << >>]
    /\ ServiceInit

InitRest ==
    /\ assoc = NoCall
    /\ BoxSmootherInit(backend_window)
    /\ TrackLoopInit("backend")
    /\ EmergencyInit
    /\ PlateSmootherInit
    /\ TrafficControllerInit
    /\ WorkerInit

Init == InitSort /\ InitRest

\* a tracker that is constructed and not driven
SortIdle == InitSort /\ max_age = 1

\* one source, a general scene: the pipeline of tracker 1 runs alone
Next == (\E d \in DetInputs : SortUpdate(1, d)) /\ UNCHANGED restVars

Spec == Init /\ [][Next]_vars

\* one source watching the three objects
NextObjects == (\E d \in ObjectInputs : SortUpdate(1, d)) /\ UNCHANGED restVars

SpecObjects == Init /\ [][NextObjects]_vars

\* two sources in one process, each watching some of the three objects, their
\* frames interleaved in any order
NextShared ==
    /\ \E i \in Insts : \E d \in SubLists(Objects, 1, MaxDets) : SortUpdate(i, d)
    /\ UNCHANGED restVars

SpecShared == Init /\ [][NextShared]_vars

-----------------------------------------------------------------------------
(* Properties.  They are stated on the state an update call leaves: the      *)
(* tracks before it (prev), its input (dets), the predicted boxes (pos), the *)
(* pairs the association returned (matched), its output (ret) and the        *)
(* tracks after it (trackers).                                               *)

Range(s) == {s[k] : k \in DOMAIN s}

Live(i) == Range(trackers[i])
LiveIds(i) == {t.id : t \in Live(i)}

\* the live track that carries the id of o
Same(i, o) == CHOOSE t \in Live(i) : t.id = o.id

\* the position in prev[i] of the track update() was called on for the pair m,
\* and of the track whose predicted box is column m[2] of trks
UpdatedTrack(i, m) == KeptTracks(pos[i])[UpdatedIndex(m[2])]
RowTrack(i, m) == FiniteRows(pos[i])[m[2]]

\* the positions in prev[i] of the tracks update() was called on
Updated(i) == {UpdatedTrack(i, matched[i][k]) : k \in DOMAIN matched[i]}

(* C1: after every call of Sort.update the returned ids are, each once, the  *)
(* ids of exactly the tracks that end the call with time_since_update < 1    *)
(* and (hit_streak >= min_hits or frame_count <= min_hits); a track removed  *)
(* during the call is not returned.                                          *)
C1_OutputRule ==
    \A i \in Insts :
        /\ Range(ret[i]) =
               {t.id + 1 : t \in {u \in Live(i) :
                   /\ u.time_since_update < 1
                   /\ (u.hit_streak >= min_hits \/ frame_count[i] <= min_hits)}}
        /\ Cardinality(Range(ret[i])) = Len(ret[i])

\* after the start-up frames: one track returned on its hit_streak, another
\* matched in the same call and withheld
C1_Witness ==
    /\ frame_count[1] > min_hits
    /\ \E t, u \in Live(1) :
          /\ t.hit_streak >= min_hits /\ t.id + 1 \in Range(ret[1])
          /\ u.time_since_update < 1 /\ u.id + 1 \notin Range(ret[1])

(* C2 as stated: every live track has time_since_update <= max_age, and      *)
(* every track that starts a call stays, under its id, if the call leaves    *)
(* its time_since_update (0 if it was updated, one more than before if not)  *)
(* at most max_age, and is removed by the call otherwise.                    *)
C2_Lifetime ==
    \A i \in Insts :
        /\ \A t \in Live(i) : t.time_since_update <= max_age
        /\ \A k \in DOMAIN prev[i] :
              LET o == prev[i][k]
              IN  IF k \in Updated(i) \/ o.time_since_update + 1 <= max_age
                  THEN /\ o.id \in LiveIds(i)
                       /\ Same(i, o).time_since_update =
                            IF k \in Updated(i) THEN 0
                            ELSE o.time_since_update + 1
                  ELSE o.id \notin LiveIds(i)

(* C2, amended: the same for every track whose predicted box holds no NaN;   *)
(* a track whose predicted box holds a NaN is removed by the call whatever   *)
(* its time_since_update.                                                    *)
C2_LifetimeFinite ==
    \A i \in Insts :
        /\ \A t \in Live(i) : t.time_since_update <= max_age
        /\ \A k \in DOMAIN prev[i] :
              LET o == prev[i][k]
              IN  IF pos[i][k].kind = "nan" THEN o.id \notin LiveIds(i)
                  ELSE IF k \in Updated(i) \/ o.time_since_update + 1 <= max_age
                  THEN /\ o.id \in LiveIds(i)
                       /\ Same(i, o).time_since_update =
                            IF k \in Updated(i) THEN 0
                            ELSE o.time_since_update + 1
                  ELSE o.id \notin LiveIds(i)

\* one track has coasted for max_age frames and is alive, another has been
\* removed by this call on exceeding max_age
C2_Witness ==
    /\ \E t \in Live(1) : t.time_since_update = max_age
    /\ \E k \in DOMAIN prev[1] :
          /\ pos[1][k].kind = "fin"
          /\ prev[1][k].time_since_update = max_age
          /\ prev[1][k].id \notin LiveIds(1)

(* C3: the ids a process assigns are strictly increasing in the order of     *)
(* assignment, so no two tracks, live or removed, carry the same id; the     *)
(* live tracks carry pairwise different ids, all of them assigned ones.      *)
C3_UniqueIds ==
    \A i \in Insts :
        /\ \A j, k \in DOMAIN issued[i] : j < k => issued[i][j] < issued[i][k]
        /\ \A j, k \in DOMAIN trackers[i] :
              j # k => trackers[i][j].id # trackers[i][k].id
        /\ LiveIds(i) \subseteq Range(issued[i])

\* a track was created after another one had been removed
C3_Witness ==
    \E j \in DOMAIN issued[1] :
        /\ issued[1][j] \notin LiveIds(1)
        /\ \E t \in Live(1) : t.age = 0 /\ t.id > issued[1][j]

(* C4: each tracker instance assigns the ids it would assign if it ran      *)
(* alone, 0, 1, 2, ... in the order it creates its tracks, whatever the      *)
(* other instance of the process does in between.                            *)
C4_IdsPerInstance ==
    \A i \in Insts : \A k \in DOMAIN issued[i] : issued[i][k] = k - 1

\* the IOU of detection d of the call against the box predicted for the track
\* at position k of prev[i]
IouOf(i, d, k) ==
    Rat(IouNum(dets[i][d], pos[i][k]), IouDen(dets[i][d], pos[i][k]))

\* the rational r is less than iou_threshold
UnderThreshold(r) == r[1] * ThrDen < ThrNum * r[2]

(* C5: every pair the association returned has IOU >= iou_threshold, and     *)
(* every track update() was called on has, with the detection it was given,  *)
(* an IOU >= iou_threshold (stated for the tracks whose predicted box is     *)
(* finite).                                                                  *)
C5_UpdatesGated ==
    \A i \in Insts : \A m \in Range(matched[i]) :
        /\ ~UnderThreshold(IouOf(i, m[1], RowTrack(i, m)))
        /\ pos[i][UpdatedTrack(i, m)].kind = "fin"
              => ~UnderThreshold(IouOf(i, m[1], UpdatedTrack(i, m)))

\* detection d of the call is below the gate against every box offered to
\* the association
LowDetection(i, d) ==
    \A k \in DOMAIN pos[i] :
        pos[i][k].kind = "fin" => UnderThreshold(IouOf(i, d, k))

\* the tracks the call created
Created(i) == {t \in Live(i) : t.age = 0}

(* C6: a detection whose IOU against every predicted track box is below      *)
(* iou_threshold is in no returned pair and gives exactly one new track,     *)
(* under an id no earlier track of the call carries; when this is so for     *)
(* every detection of the frame, no update() runs, and every track whose     *)
(* predicted box holds no NaN ends the call with time_since_update one       *)
(* higher and hits unchanged, alive as long as that is at most max_age (so   *)
(* a track matched the frame before ends with 1 and is alive).               *)
C6_BelowGate ==
    \A i \in Insts :
        /\ \A d \in DOMAIN dets[i] :
              LowDetection(i, d) =>
                /\ \A m \in Range(matched[i]) : m[1] # d
                /\ Cardinality({t \in Created(i) :
                                   t.x = InitState(dets[i][d])}) = 1
                /\ \A t \in Created(i) : \A o \in Range(prev[i]) : t.id # o.id
        /\ (\A d \in DOMAIN dets[i] : LowDetection(i, d)) =>
              /\ matched[i] = << >>
              /\ \A k \in DOMAIN prev[i] :
                    LET o == prev[i][k]
                    IN  (pos[i][k].kind # "nan"
                           /\ o.time_since_update + 1 <= max_age) =>
                          /\ o.id \in LiveIds(i)
                          /\ Same(i, o).time_since_update =
                                o.time_since_update + 1
                          /\ Same(i, o).hits = o.hits

\* the scenario of the gate: one track, matched the frame before, predicted
\* at BoxX; one detection, BoxY, at IOU 29/100 against it
C6_Witness ==
    /\ dets[1] = <<BoxY>> /\ pos[1] = <<BoxX>>
    /\ IouOf(1, 1, 1) = <<29, 100>>
    /\ prev[1][1].time_since_update = 0
    /\ Len(trackers[1]) = 2
    /\ trackers[1][1].time_since_update = 1 /\ trackers[1][2].age = 0

(* C7: from an empty tracker a first frame of three detections creates       *)
(* exactly three tracks, and a track created on frame 1 and matched on       *)
(* every frame since is in the output of each of the frames 1..min_hits.     *)
C7_StartUp ==
    /\ (frame_count[1] = 1 /\ Len(dets[1]) = 3) =>
          Len(trackers[1]) = 3 /\ Len(ret[1]) = 3
    /\ frame_count[1] \in 1..min_hits =>
          \A t \in Live(1) :
              (t.age = frame_count[1] - 1 /\ t.hits = t.age
                 /\ t.time_since_update = 0)
                => t.id + 1 \in Range(ret[1])

\* frame 3 of the three objects, each detected on every frame
C7_Witness ==
    /\ frame_count[1] = min_hits
    /\ Len(trackers[1]) = 3
    /\ \A t \in Live(1) : t.age = 2 /\ t.hits = 2 /\ t.hit_streak = 2
    /\ Range(ret[1]) = {1, 2, 3}

(* C8 as stated: a live track on which the call ran no update() (its         *)
(* time_since_update is at least 1 at the end) has hit_streak 0.             *)
C8_ResetWhenUnmatched ==
    \A i \in Insts : \A t \in Live(i) :
        t.time_since_update >= 1 => t.hit_streak = 0

\* hit_streak of o after the predict() of the next call
AfterPredict(o) == IF o.time_since_update > 0 THEN 0 ELSE o.hit_streak

(* C8, amended: predict() resets hit_streak only for a track that already    *)
(* missed the frame before.  A track the call ran no update() on ends it     *)
(* with the hit_streak it had if it was matched the frame before, and with   *)
(* 0 if it was not (so hit_streak is 0 from the second unmatched frame in a  *)
(* row on); a track that is matched again after a miss ends with 1.          *)
C8_ResetOneFrameLate ==
    \A i \in Insts : \A k \in DOMAIN prev[i] :
        LET o == prev[i][k]
        IN  o.id \in LiveIds(i) =>
              /\ Same(i, o).time_since_update >= 1 =>
                    Same(i, o).hit_streak = AfterPredict(o)
              /\ Same(i, o).time_since_update >= 2 => Same(i, o).hit_streak = 0
              /\ (Same(i, o).time_since_update = 0 /\ o.time_since_update > 0)
                    => Same(i, o).hit_streak = 1

\* a track with a streak has missed two frames in a row: the streak was
\* still there after the first, and is 0 after the second
C8_Witness ==
    \E k \in DOMAIN prev[1] :
        /\ prev[1][k].time_since_update = 1 /\ prev[1][k].hit_streak > 0
        /\ prev[1][k].id \in LiveIds(1)
        /\ Same(1, prev[1][k]).time_since_update = 2
        /\ Same(1, prev[1][k]).hit_streak = 0

(* C9: a track on which update() runs in a call has hits one higher than     *)
(* before the call; if update() also ran on it (or it was created) in the    *)
(* call before, its hit_streak is one higher too: over consecutive matched   *)
(* frames both grow by exactly 1 a frame.                                    *)
C9_CountersGrow ==
    \A i \in Insts : \A k \in DOMAIN prev[i] :
        LET o == prev[i][k]
        IN  (o.id \in LiveIds(i) /\ Same(i, o).time_since_update = 0) =>
              /\ k \in Updated(i)
              /\ Same(i, o).hits = o.hits + 1
              /\ o.time_since_update = 0 =>
                    Same(i, o).hit_streak = o.hit_streak + 1

\* a track matched on three frames in a row
C9_Witness ==
    \E t \in Live(1) : t.hits = 3 /\ t.hit_streak = 3 /\ t.age = 3

(* C10: every track whose predicted box holds a NaN or an infinity is gone   *)
(* from the track list at the end of the call and is not in its output, and  *)
(* every pair of the association makes update() run on the track whose       *)
(* predicted box is the column of the pair.                                  *)
C10_DropNonFinite ==
    \A i \in Insts :
        /\ \A k \in DOMAIN prev[i] :
              pos[i][k].kind # "fin" =>
                /\ prev[i][k].id \notin LiveIds(i)
                /\ prev[i][k].id + 1 \notin Range(ret[i])
        /\ \A m \in Range(matched[i]) : UpdatedTrack(i, m) = RowTrack(i, m)

-----------------------------------------------------------------------------
(* associate_detections_to_trackers called on its own, with a detection      *)
(* array of shape (n, 5) and a track array of shape (m, 5), n, m >= 0.       *)

\* the arguments of a call
AssociateArgs ==
    {[detections |-> d, trackers |-> t, called |-> FALSE, result |-> NoResult] :
        d \in DetInputs \cup ObjectInputs, t \in TrkInputs}

InitAssociate ==
    /\ SortIdle
    /\ assoc \in AssociateArgs
    /\ BoxSmootherInit(backend_window)
    /\ TrackLoopInit("backend")
    /\ EmergencyInit
    /\ PlateSmootherInit
    /\ TrafficControllerInit
    /\ WorkerInit

\* the call returns
AssociateCall ==
    /\ ~assoc.called
    /\ \E r \in Association[assoc.detections][assoc.trackers] :
          assoc' = [assoc EXCEPT !.called = TRUE, !.result = r]
    /\ UNCHANGED <<sortVars, smootherVars, wrongWayVars, emergencyVars,
                   plateVars, signalVars, workerVars>>

NextAssociate == AssociateCall

SpecAssociate == InitAssociate /\ [][NextAssociate]_vars

\* the indices 0..n-1 of an array of n rows, in order
Arange(n) == [k \in 1..n |-> k]

(* C11: a call of associate_detections_to_trackers with an empty side        *)
(* returns (it does not raise): with zero tracks it returns no matches,      *)
(* every detection index as unmatched and no unmatched track; with zero      *)
(* detections and one or more tracks it returns no matches, no unmatched     *)
(* detection and every track index as unmatched.                             *)
C11_EmptySide ==
    LET nd == Len(assoc.detections)
        nt == Len(assoc.trackers)
        r == assoc.result
    IN  /\ (~assoc.called /\ (nd = 0 \/ nt = 0)) => ENABLED AssociateCall
        /\ (assoc.called /\ nt = 0) =>
              /\ r.matches = << >>
              /\ r.unmatched_detections = Arange(nd)
              /\ r.unmatched_trackers = << >>
        /\ (assoc.called /\ nd = 0 /\ nt >= 1) =>
              /\ r.matches = << >>
              /\ r.unmatched_detections = << >>
              /\ r.unmatched_trackers = Arange(nt)

\* a returned call with no detection and two tracks
C11_Witness ==
    /\ assoc.called
    /\ Len(assoc.detections) = 0
    /\ Len(assoc.trackers) = 2
    /\ assoc.result.unmatched_trackers = <<1, 2>>

-----------------------------------------------------------------------------
(* Floating point arithmetic of the smoothers.  A float64 is modelled as a   *)
(* binary floating point number of Precision significand bits (53 in the     *)
(* program): a value is <<m, e>>, standing for m * 2^e, with m >= 0 odd (or  *)
(* <<0, 0>>), and every operation rounds its exact result to the nearest     *)
(* value of Precision bits, ties to the even significand.                    *)

Precision == 16

RECURSIVE Pow2(_)
Pow2(k) == IF k = 0 THEN 1 ELSE 2 * Pow2(k - 1)

\* 2^Precision: the integers below it are floats
TwoToPrecision == Pow2(Precision)

RECURSIVE BitLength(_)
BitLength(m) == IF m = 0 THEN 0 ELSE 1 + BitLength(m \div 2)

\* m * 2^e with the factors 2 of m moved into the exponent
RECURSIVE Norm(_, _)
Norm(m, e) ==
    IF m = 0 THEN <<0, 0>>
    ELSE IF m % 2 = 0 THEN Norm(m \div 2, e + 1) ELSE <<m, e>>

\* the float nearest to M * 2^e
RoundSig(M, e) ==
    IF M < TwoToPrecision THEN Norm(M, e)
    ELSE LET s == BitLength(M) - Precision
             q == M \div Pow2(s)
             r == M % Pow2(s)
             h == Pow2(s - 1)
         IN  Norm(IF r > h \/ (r = h /\ q % 2 = 1) THEN q + 1 ELSE q, e + s)

\* a + b
FAdd(a, b) ==
    LET e == Min(a[2], b[2])
    IN  RoundSig(a[1] * Pow2(a[2] - e) + b[1] * Pow2(b[2] - e), e)

\* the least t with m * 2^t >= n * 2^(Precision - 1)
RECURSIVE Scale(_, _, _)
Scale(m, n, t) ==
    IF m * Pow2(t) >= n * Pow2(Precision - 1) THEN t ELSE Scale(m, n, t + 1)

\* a / n for an integer n >= 1
FDiv(a, n) ==
    IF a[1] = 0 THEN <<0, 0>>
    ELSE LET t == Scale(a[1], n, 0)
             q == (a[1] * Pow2(t)) \div n
             r == (a[1] * Pow2(t)) % n
         IN  RoundSig(IF 2 * r > n \/ (2 * r = n /\ q % 2 = 1) THEN q + 1 ELSE q,
                      a[2] - t)

\* the float of an integer k, 0 <= k < 2^Precision
Fl(k) == Norm(k, 0)

\* arr.sum(axis=0)[c]: the rows added one after the other, first row first
RECURSIVE FSum(_, _, _)
FSum(rows, c, n) ==
    IF n = 1 THEN rows[1][c] ELSE FAdd(FSum(rows, c, n - 1), rows[n][c])

\* np.stack(rows, axis=0).mean(axis=0): the sum of each column divided by the
\* number of rows
FMean(rows) == [c \in 1..4 |-> FDiv(FSum(rows, c, Len(rows)), Len(rows))]

-----------------------------------------------------------------------------
(* BoxSmoother *)

\* variant: a buffer that evicts its newest box when it is full
AppendKeepOldest(buf, bbox, w) == IF Len(buf) < w THEN Append(buf, bbox) ELSE buf

\* deque(maxlen=w).append(bbox): the oldest box leaves a full buffer
DequeAppend(buf, bbox, w) ==
    IF Len(buf) < w THEN Append(buf, bbox) ELSE Append(Tail(buf), bbox)

\* self.buffers[track_id], which the defaultdict creates empty when missing
BufferOf(bufs, track_id) ==
    IF track_id \in DOMAIN bufs THEN bufs[track_id] ELSE << >>

\* self.buffers after BoxSmoother.update(track_id, bbox)
BuffersAfter(bufs, w, track_id, bbox) ==
    (track_id :> DequeAppend(BufferOf(bufs, track_id), bbox, w)) @@ bufs

\* the value BoxSmoother.update(track_id, bbox) returns
BoxSmootherUpdate(bufs, w, track_id, bbox) ==
    FMean(BuffersAfter(bufs, w, track_id, bbox)[track_id])

(* BoxSmoother.update driven on its own: a smoother of any window up to      *)
(* MaxWindow, fed up to MaxCalls boxes.                                      *)

MaxWindow == 3
MaxCalls == 4

\* 170.6796875: three times this value is not a float of Precision bits
Frac == <<21847, -7>>

SmBoxes ==
    {<<Fl(100), Fl(60), Fl(160), Fl(100)>>,
     <<Fl(100), Fl(20), Fl(160), Fl(60)>>,
     <<Frac, Fl(60), FAdd(Frac, Fl(60)), Fl(100)>>}

TrackIds == {1, 2}

InitSmoother ==
    /\ SortIdle
    /\ assoc = NoCall
    /\ \E w \in 1..MaxWindow : BoxSmootherInit(w)
    /\ TrackLoopInit("backend")
    /\ EmergencyInit
    /\ PlateSmootherInit
    /\ TrafficControllerInit
    /\ WorkerInit

\* the number of boxes passed so far
RECURSIVE TotalLen(_, _)
TotalLen(f, ids) ==
    IF ids = {} THEN 0
    ELSE LET i == CHOOSE i \in ids : TRUE
         IN  Len(f[i]) + TotalLen(f, ids \ {i})

\* car_smoother.update(track_id, bbox)
SmootherUpdate(track_id, bbox) ==
    /\ TotalLen(passed, DOMAIN passed) < MaxCalls
    /\ buffers' = BuffersAfter(buffers, window, track_id, bbox)
    /\ smoothed' = [track_id |-> track_id,
                    bbox |-> BoxSmootherUpdate(buffers, window, track_id, bbox)]
    /\ passed' = (track_id :> Append(BufferOf(passed, track_id), bbox)) @@ passed
    /\ UNCHANGED <<sortVars, assoc, window, wrongWayVars, emergencyVars,
                   plateVars, signalVars, workerVars>>

NextSmoother == \E track_id \in TrackIds : \E bbox \in SmBoxes :
                    SmootherUpdate(track_id, bbox)

SpecSmoother == InitSmoother /\ [][NextSmoother]_vars

\* the boxes a buffer of the given window holds after the boxes of h were
\* appended to it: the last min(Len(h), window) of them, oldest first
Recent(h, w) == SubSeq(h, Len(h) - Min(Len(h), w) + 1, Len(h))

\* the boxes of rows are all the box b
AllEqual(rows, b) == \A j \in 1..Len(rows) : rows[j] = b

\* j * x is a float, for every j up to k: adding x up k times rounds nowhere
ExactSums(x, k) == \A j \in 1..k : BitLength(Norm(j * x[1], x[2])[1]) <= Precision

\* |a - b| * 2^Precision <= n * b
Near(a, b, n) ==
    LET e == Min(a[2], b[2])
        av == a[1] * Pow2(a[2] - e)
        bv == b[1] * Pow2(b[2] - e)
    IN  (IF av >= bv THEN av - bv ELSE bv - av) * Pow2(Precision) <= n * bv

\* the buffers hold, for every id, the most recent min(n, window) boxes passed
\* for it, and the last call returned the mean of its buffer as the floating
\* point arithmetic computes it
MeanOfRecent ==
    /\ DOMAIN buffers = DOMAIN passed
    /\ \A id \in DOMAIN passed : buffers[id] = Recent(passed[id], window)
    /\ smoothed.track_id # 0 =>
          smoothed.bbox = FMean(Recent(passed[smoothed.track_id], window))

(* C12 as stated: the n-th call of BoxSmoother.update for an id returns the  *)
(* mean of the most recent min(n, window) boxes passed for that id, and      *)
(* when these boxes are all the same box (the same box fed to a fresh id, or *)
(* window identical boxes after anything else) it returns that box.          *)
C12_Mean ==
    /\ MeanOfRecent
    /\ smoothed.track_id # 0 =>
          \A b \in SmBoxes :
              AllEqual(Recent(passed[smoothed.track_id], window), b)
                  => smoothed.bbox = b

(* C12, amended: the n-th call returns the mean of the most recent           *)
(* min(n, window) boxes as float64 arithmetic computes it (the boxes added   *)
(* oldest first, the sum divided by their number, each operation rounded).   *)
(* When these k boxes are all the same box, each returned coordinate is      *)
(* within the relative error (k+1) * 2^-Precision of that box's coordinate,  *)
(* and is that coordinate itself when adding it up k times rounds nowhere    *)
(* (whole pixel coordinates, for one).                                       *)
C12_FloatMean ==
    /\ MeanOfRecent
    /\ smoothed.track_id # 0 =>
          LET r == Recent(passed[smoothed.track_id], window)
          IN  \A b \in SmBoxes :
                AllEqual(r, b) =>
                    \A c \in 1..4 :
                        /\ Near(smoothed.bbox[c], b[c], Len(r) + 1)
                        /\ ExactSums(b[c], Len(r)) => smoothed.bbox[c] = b[c]

\* a full buffer of window 2 that evicted a different box and holds the same
\* box twice: the call returned that box
C12_Witness ==
    /\ window = 2
    /\ smoothed.track_id = 1
    /\ Len(passed[1]) = 3
    /\ passed[1][1] # passed[1][2]
    /\ passed[1][2] = passed[1][3]
    /\ smoothed.bbox = passed[1][3]

-----------------------------------------------------------------------------
(* The track loop of the pipelines: smoothing and the wrong-way heuristic    *)
(* (SmartMobilitySystem.process_stream, JunctionProcessor.start).            *)

MaxLoopFrames == 32   \* frames of a run of the track loop
MaxTurns == 1         \* changes of speed of the vehicles in a run
StartY == 200         \* top y of a vehicle on its first frame

Speeds == {0, 5, 6}   \* pixels a vehicle moves up per frame
Steady == {2}         \* the vehicles that keep their speed for the whole run

\* int(x) for a float x >= 0
ToInt(a) == IF a[2] >= 0 THEN a[1] * Pow2(a[2]) ELSE a[1] \div Pow2(0 - a[2])

\* y_new < y_old - d, for an int y_new >= 0, a float y_old and an int d: the
\* difference is a float, negative or rounded from its exact value
LessThanMinus(y_new, y_old, d) ==
    LET e == Min(y_old[2], 0)
        M == y_old[1] * Pow2(y_old[2] - e) - d * Pow2(0 - e)
    IN  /\ M > 0
        /\ LET r == RoundSig(M, e)
               f == Min(r[2], 0)
           IN  y_new * Pow2(0 - f) < r[1] * Pow2(r[2] - f)

\* variant: the newest box of the buffer taken for the oldest
check_wrong_way_newest(bufs, track_id, current_pos) ==
    LET history == BufferOf(bufs, track_id)
    IN  IF Len(history) < min_history THEN FALSE
        ELSE LessThanMinus(current_pos[2], history[Len(history)][2], up_threshold)

\* check_wrong_way(track_id, current_pos), bufs being car_smoother.buffers
check_wrong_way(bufs, track_id, current_pos) ==
    LET history == BufferOf(bufs, track_id)
    IN  IF Len(history) < min_history THEN FALSE
        ELSE LessThanMinus(current_pos[2], history[1][2], up_threshold)

\* variant: every flagged frame appends
RecordEveryFlag(violations, tid, is_wrong_way) ==
    IF is_wrong_way THEN Append(violations, tid) ELSE violations

\* if is_wrong_way: if tid not in self.wrong_way_violations: append(tid)
RecordViolation(violations, tid, is_wrong_way) ==
    IF is_wrong_way /\ tid \notin {violations[k] : k \in DOMAIN violations}
    THEN Append(violations, tid)
    ELSE violations

\* the body of `for tr in tracks` for the track tid at box, in pipeline p with
\* a car smoother of window w; st holds the state the body reads and writes.
\* Only the worker logs: violation_type is set on the frame that appends tid,
\* and log_violation_enhanced is then called once, whatever it returns.
TrackBody(st, p, w, tid, box) ==
    LET bufs == BuffersAfter(st.buffers, w, tid, box)
        bbox == FMean(bufs[tid])    \* what car_smoother.update returns
        current_pos == [c \in 1..4 |-> ToInt(bbox[c])]
        is_wrong_way == check_wrong_way(bufs, tid, current_pos)
        violations == RecordViolation(st.wrong_way_violations, tid, is_wrong_way)
    IN  [buffers |-> bufs,
         smoothed |-> [track_id |-> tid, bbox |-> bbox],
         wrong_way_violations |-> violations,
         checked |-> (tid :> [pos |-> current_pos, is_wrong_way |-> is_wrong_way])
                         @@ st.checked,
         violation_log |->
             IF p = "worker" /\ violations # st.wrong_way_violations
             THEN Append(st.violation_log, tid)
             ELSE st.violation_log]

\* the loop over tracks, from its k-th element on
RECURSIVE TrackLoop(_, _, _, _, _)
TrackLoop(st, p, w, tracks, k) ==
    IF k > Len(tracks) THEN st
    ELSE TrackLoop(TrackBody(st, p, w, tracks[k].tid, tracks[k].box), p, w,
                   tracks, k + 1)

\* the [x1, y1, x2, y2] the tracker outputs for vehicle tid at top y
VehicleBox(tid, y) == <<Fl(100 * tid), Fl(y), Fl(100 * tid + 60), Fl(y + 40)>>

InitWrongWay ==
    /\ SortIdle
    /\ assoc = NoCall
    /\ \E p \in {"backend", "worker"} :
          /\ TrackLoopInit(p)
          /\ BoxSmootherInit(IF p = "backend" THEN backend_window
                                              ELSE worker_window)
    /\ EmergencyInit
    /\ PlateSmootherInit
    /\ TrafficControllerInit
    /\ WorkerInit

\* one frame: every vehicle of TrackIds is output by the tracker, each moved
\* up by its speed v[tid] since the frame before; the vehicles change speed
\* at most MaxTurns times in all
Frame(v) ==
    /\ scene.frames < MaxLoopFrames
    /\ LET first == scene.frames = 0
           changed == IF first THEN 0
                      ELSE Cardinality({t \in TrackIds : v[t] # scene.v[t]})
           y == [t \in TrackIds |-> IF first THEN StartY ELSE scene.y[t] - v[t]]
           ids == SortedSeq(TrackIds)
           tracks == [k \in 1..Len(ids) |->
                         [tid |-> ids[k], box |-> VehicleBox(ids[k], y[ids[k]])]]
           now == [buffers |-> buffers, smoothed |-> smoothed,
                   wrong_way_violations |-> wrong_way_violations,
                   checked |-> checked, violation_log |-> violation_log]
       IN  /\ scene.turns + changed <= MaxTurns
           /\ \A t \in Steady : IF first THEN TRUE ELSE v[t] = scene.v[t]
           /\ scene' = [frames |-> scene.frames + 1,
                        turns |-> scene.turns + changed, y |-> y, v |-> v]
           /\ \E st \in {TrackLoop(now, pipeline, window, tracks, 1)} :
                 /\ buffers' = st.buffers
                 /\ smoothed' = st.smoothed
                 /\ wrong_way_violations' = st.wrong_way_violations
                 /\ checked' = st.checked
                 /\ violation_log' = st.violation_log
    /\ UNCHANGED <<sortVars, assoc, window, passed, pipeline, emergencyVars,
                   plateVars, signalVars, workerVars>>

NextWrongWay == \E v \in [TrackIds -> Speeds] : Frame(v)

SpecWrongWay == InitWrongWay /\ [][NextWrongWay]_vars

(* C13: in every pipeline that runs the wrong-way heuristic the window of    *)
(* the car-box smoother is at least the 20 samples the heuristic asks for,   *)
(* so that a track output on 20 or more frames has 20 or more boxes in its   *)
(* buffer and the heuristic can flag it.                                     *)
C13_WindowSupportsHistory ==
    \A tid \in DOMAIN buffers :
        scene.frames >= min_history =>
            /\ window >= min_history
            /\ Len(buffers[tid]) >= min_history

\* the condition of the heuristic on the buffer of tid and a position
MovedUp(tid, current_pos) ==
    /\ Len(buffers[tid]) >= min_history
    /\ current_pos[2] < ToInt(buffers[tid][1][2]) - up_threshold

(* C14: check_wrong_way(track_id, pos) returns true if and only if the       *)
(* buffer of track_id holds at least 20 boxes and the top y of pos is        *)
(* smaller than the top y of the oldest buffered box minus 50; with fewer    *)
(* than 20 boxes it returns false.                                           *)
C14_WrongWayIff ==
    \A tid \in DOMAIN checked :
        /\ checked[tid].is_wrong_way <=> MovedUp(tid, checked[tid].pos)
        /\ Len(buffers[tid]) < min_history => ~checked[tid].is_wrong_way

\* a vehicle flagged on the frame after its buffer evicted its first box
C14_Witness ==
    /\ scene.frames = backend_window + 1
    /\ 1 \in DOMAIN checked
    /\ checked[1].is_wrong_way
    /\ ToInt(buffers[1][1][2]) < StartY

\* s is a prefix of t
IsPrefix(s, t) == Len(s) <= Len(t) /\ SubSeq(t, 1, Len(s)) = s

\* no element of s occurs twice
NoDup(s) == \A j, k \in DOMAIN s : s[j] = s[k] => j = k

(* C15: every frame leaves the track ids already in wrong_way_violations in  *)
(* place and adds a track id only if it is not in the list, so an id is in   *)
(* the list at most once; the worker calls log_violation_enhanced for a      *)
(* track id exactly on the frame that adds it to the list (the backend       *)
(* never), so at most once per id; and the flag of a track is computed from  *)
(* the heuristic's condition on every frame, in the list or not.             *)
C15_FlaggedOnce ==
    [][/\ IsPrefix(wrong_way_violations, wrong_way_violations')
       /\ NoDup(wrong_way_violations')
       /\ violation_log' =
             IF pipeline = "worker"
             THEN violation_log \o SubSeq(wrong_way_violations',
                                          Len(wrong_way_violations) + 1,
                                          Len(wrong_way_violations'))
             ELSE violation_log
       /\ NoDup(violation_log')
       /\ \A tid \in DOMAIN checked' :
             LET history == buffers'[tid]
                 holds == /\ Len(history) >= min_history
                          /\ checked'[tid].pos[2]
                                < ToInt(history[1][2]) - up_threshold
             IN  /\ checked'[tid].is_wrong_way <=> holds
                 /\ holds => \E k \in DOMAIN wrong_way_violations' :
                                 wrong_way_violations'[k] = tid
      ]_vars

\* both vehicles flagged on frame 30, ten frames after they were first
\* flagged, each once in the list
C15_Witness ==
    /\ scene.frames = 30
    /\ wrong_way_violations = <<1, 2>>
    /\ checked[1].is_wrong_way
    /\ checked[2].is_wrong_way

-----------------------------------------------------------------------------
(* Emergency vehicles in the worker (JunctionProcessor.start, lines          *)
(* 384-401): what the track loop does for a track on a frame that flags it   *)
(* (class truck and detect_ambulance true).  A frame that does not flag the  *)
(* track neither reads nor writes this state.                                *)

MaxDbCalls == 4   \* database calls for emergency vehicles in a run

\* variant: a creation on every flagged frame
EmergencyCallCreates(active, tid, returned) ==
    [op |-> "log_emergency_vehicle", tid |-> tid, id |-> returned]

\* the database call of a flagged frame; returned is what
\* log_emergency_vehicle returns if it is called, 0 standing for None
EmergencyCall(active, tid, returned) ==
    IF tid \notin DOMAIN active
    THEN [op |-> "log_emergency_vehicle", tid |-> tid, id |-> returned]
    ELSE [op |-> "update_emergency_vehicle_last_seen", tid |-> tid,
          id |-> active[tid]]

\* self.active_emergency_vehicles after the frame: `if emergency_id:` stores
\* the id returned by a creation
ActiveAfter(active, tid, returned) ==
    IF tid \notin DOMAIN active /\ returned # 0
    THEN (tid :> returned) @@ active
    ELSE active

\* a frame that flags track tid; ok: the insert of log_emergency_vehicle
\* succeeds and returns the id of the new row (otherwise it returns None)
EmergencyFlagged(tid, ok) ==
    /\ Len(emergency_log) < MaxDbCalls
    /\ LET call == EmergencyCall(active_emergency_vehicles, tid,
                                 IF ok THEN db_next ELSE 0)
           created == call.op = "log_emergency_vehicle" /\ ok
       IN  /\ emergency_log' = Append(emergency_log, call)
           /\ active_emergency_vehicles' =
                 ActiveAfter(active_emergency_vehicles, tid,
                             IF ok THEN db_next ELSE 0)
           /\ db_next' = IF created THEN db_next + 1 ELSE db_next
    /\ UNCHANGED <<sortVars, assoc, smootherVars, wrongWayVars, plateVars,
                   signalVars, workerVars>>

InitEmergency ==
    /\ SortIdle
    /\ assoc = NoCall
    /\ BoxSmootherInit(worker_window)
    /\ TrackLoopInit("worker")
    /\ EmergencyInit
    /\ PlateSmootherInit
    /\ TrafficControllerInit
    /\ WorkerInit

NextEmergency == \E tid \in TrackIds : \E ok \in BOOLEAN : EmergencyFlagged(tid, ok)

SpecEmergency == InitEmergency /\ [][NextEmergency]_vars

\* the k-th call is a creation that returned an id, which was stored
Recorded(k) ==
    /\ emergency_log[k].op = "log_emergency_vehicle"
    /\ emergency_log[k].id # 0

(* C16: a track id is in active_emergency_vehicles exactly when a creation   *)
(* for it returned an id; from that call on the stored id is the id that     *)
(* call returned, no creation is issued for the track again, and every       *)
(* later flagged frame of the track issues a last-seen update for that id.   *)
C16_CreatedOnce ==
    /\ \A tid \in TrackIds :
          tid \in DOMAIN active_emergency_vehicles
              <=> \E k \in DOMAIN emergency_log :
                      Recorded(k) /\ emergency_log[k].tid = tid
    /\ \A k \in DOMAIN emergency_log :
          Recorded(k) =>
              /\ active_emergency_vehicles[emergency_log[k].tid]
                     = emergency_log[k].id
              /\ \A j \in DOMAIN emergency_log :
                    (j > k /\ emergency_log[j].tid = emergency_log[k].tid) =>
                        /\ emergency_log[j].op
                               = "update_emergency_vehicle_last_seen"
                        /\ emergency_log[j].id = emergency_log[k].id

\* track 1: a creation that failed, a creation that returned id 1, then two
\* flagged frames
C16_Witness ==
    /\ Len(emergency_log) = 4
    /\ \A k \in 1..4 : emergency_log[k].tid = 1
    /\ emergency_log[1].id = 0
    /\ Recorded(2)
    /\ emergency_log[4] =
           [op |-> "update_emergency_vehicle_last_seen", tid |-> 1, id |-> 1]
    /\ active_emergency_vehicles[1] = 1

-----------------------------------------------------------------------------
(* PlateSmoother: the best plate text of a track.  An argument that may be   *)
(* None is << >> for None and <<x>> for the value x; a score is a number of  *)
(* hundredths (OCR confidences lie in [0, 1]), and float(score) keeps its    *)
(* value.                                                                    *)

MaxReads == 3   \* update_text calls in a run

None == << >>
Texts == {None, <<"">>, <<"KA01AB">>, <<"KA07XY">>}
Scores == {None, <<40>>, <<90>>}

Readers == {1}   \* the tracks update_text is called for

\* {'text': '0', 'score': 0.0}
Sentinel == [text |-> "0", score |-> 0]

\* variant: the newest read replaces the stored one whatever its score
update_text_latest(bt, track_id, text, score) ==
    IF text = None \/ text = <<"">> THEN bt
    ELSE (track_id :> [text |-> text[1],
                       score |-> IF score = None THEN 0 ELSE score[1]]) @@ bt

\* variant: a read replaces the stored one only with a higher score
update_text_strict(bt, track_id, text, score) ==
    IF text = None \/ text = <<"">> THEN bt
    ELSE LET before == IF track_id \in DOMAIN bt THEN bt[track_id] ELSE Sentinel
             sc == IF score = None THEN 0 ELSE score[1]
         IN  IF sc > before.score
             THEN (track_id :> [text |-> text[1], score |-> sc]) @@ bt
             ELSE bt

\* self.best_text after PlateSmoother.update_text(track_id, text, score)
update_text(bt, track_id, text, score) ==
    IF text = None \/ text = <<"">> THEN bt
    ELSE LET before == IF track_id \in DOMAIN bt THEN bt[track_id] ELSE Sentinel
             sc == IF score = None THEN 0 ELSE score[1]
         IN  IF sc >= before.score
             THEN (track_id :> [text |-> text[1], score |-> sc]) @@ bt
             ELSE bt

\* PlateSmoother.get_best_text(track_id)
get_best_text(bt, track_id) ==
    IF track_id \in DOMAIN bt THEN bt[track_id] ELSE Sentinel

InitPlates ==
    /\ SortIdle
    /\ assoc = NoCall
    /\ BoxSmootherInit(backend_window)
    /\ TrackLoopInit("backend")
    /\ EmergencyInit
    /\ PlateSmootherInit
    /\ TrafficControllerInit
    /\ WorkerInit

\* plate_smoother.update_text(track_id, text, score)
UpdateText(track_id, text, score) ==
    /\ TotalLen(reads, DOMAIN reads) < MaxReads
    /\ best_text' = update_text(best_text, track_id, text, score)
    /\ reads' = (track_id :> Append(BufferOf(reads, track_id),
                                    [text |-> text, score |-> score])) @@ reads
    /\ UNCHANGED <<sortVars, assoc, smootherVars, wrongWayVars, emergencyVars,
                   got, signalVars, workerVars>>

\* plate_smoother.get_best_text(track_id)
GetBestText(track_id) ==
    /\ LET best == get_best_text(best_text, track_id)
       IN  got' = [track_id |-> track_id,
                   after |-> Len(BufferOf(reads, track_id)),
                   text |-> best.text, score |-> best.score]
    /\ UNCHANGED <<sortVars, assoc, smootherVars, wrongWayVars, emergencyVars,
                   best_text, reads, signalVars, workerVars>>

NextPlates ==
    \/ \E track_id \in Readers : \E text \in Texts : \E score \in Scores :
          UpdateText(track_id, text, score)
    \/ \E track_id \in TrackIds : GetBestText(track_id)

SpecPlates == InitPlates /\ [][NextPlates]_vars

(* C17: no call of PlateSmoother.update_text lowers the score stored for a   *)
(* track id, and no call removes a stored record.                            *)
C17_ScoreNeverDrops ==
    [][\A tid \in DOMAIN best_text :
          /\ tid \in DOMAIN best_text'
          /\ best_text'[tid].score >= best_text[tid].score]_vars

\* a read of score 0.4 after a read of score 0.9: the first one is kept
C17_Witness ==
    /\ 1 \in DOMAIN reads
    /\ reads[1] = <<[text |-> <<"KA01AB">>, score |-> <<90>>],
                    [text |-> <<"KA07XY">>, score |-> <<40>>]>>
    /\ best_text[1] = [text |-> "KA01AB", score |-> 90]

\* the reads of h that carry a text
WithText(h) ==
    LET carries(c) == c.text # None /\ c.text # <<"">>
    IN  SelectSeq(h, carries)

\* the score a read counts with: an absent score counts as 0.0
ScoreOf(c) == IF c.score = None THEN 0 ELSE c.score[1]

\* the newest of the reads of h that carry a text and have the highest score
\* among them; the sentinel when no read carries a text
NewestBest(h) ==
    LET v == WithText(h)
    IN  IF v = << >> THEN Sentinel
        ELSE LET k == CHOOSE k \in DOMAIN v :
                        /\ \A j \in DOMAIN v : ScoreOf(v[j]) <= ScoreOf(v[k])
                        /\ \A j \in DOMAIN v : j > k => ScoreOf(v[j]) < ScoreOf(v[k])
             IN  [text |-> v[k].text[1], score |-> ScoreOf(v[k])]

(* C18: after any sequence of update_text calls for an id the stored record  *)
(* is the text and score of the newest call among those that carry a         *)
(* non-empty text and have the highest score of them (an absent score        *)
(* counting as 0.0); calls with an empty or absent text change nothing;      *)
(* get_best_text returns that record, and with no such call it returns the   *)
(* sentinel and the id has no entry.                                         *)
C18_BestText ==
    /\ \A tid \in TrackIds :
          LET h == BufferOf(reads, tid)
          IN  IF WithText(h) = << >>
              THEN tid \notin DOMAIN best_text
              ELSE tid \in DOMAIN best_text /\ best_text[tid] = NewestBest(h)
    /\ got.track_id # 0 =>
          [text |-> got.text, score |-> got.score]
              = NewestBest(SubSeq(BufferOf(reads, got.track_id), 1, got.after))

\* two reads of the same score: get_best_text returns the newer one
C18_Witness ==
    /\ 1 \in DOMAIN reads
    /\ reads[1] = <<[text |-> <<"KA01AB">>, score |-> <<90>>],
                    [text |-> <<"KA07XY">>, score |-> <<90>>]>>
    /\ got = [track_id |-> 1, after |-> 2, text |-> "KA07XY", score |-> 90]

-----------------------------------------------------------------------------
(* TrafficController.calculate_signal_duration.  The reason of rule 2 is an  *)
(* f-string that holds the density: it is modelled by its template.          *)

MaxDensity == 40   \* largest lane density (number of tracks of a frame)
NegDensities == 3  \* direct calls pass densities down to -NegDensities
MaxFlagged == 2    \* most tracks of a frame that detect_ambulance accepts

\* variant: the green time of rule 3 follows the density
calculate_proportional(lane_density, ambulance_detected) ==
    IF ambulance_detected
    THEN [action |-> "GREEN", duration |-> emergency_duration,
          reason |-> "Ambulance Detected - Green Corridor Active"]
    ELSE IF lane_density > high_density
    THEN [action |-> "GREEN",
          duration |-> Min(max_green_duration,
                           standard_green_duration + lane_density * 2),
          reason |-> "High Density ({lane_density}) - Extending Green"]
    ELSE IF lane_density < low_density
    THEN [action |-> "GREEN", duration |-> lane_density * 2,
          reason |-> "Low Density - Minimal Green"]
    ELSE [action |-> "GREEN", duration |-> standard_green_duration,
          reason |-> "Normal Flow"]

\* variant: the density rules consulted before the emergency rule
calculate_density_first(lane_density, ambulance_detected) ==
    IF lane_density > high_density
    THEN [action |-> "GREEN",
          duration |-> Min(max_green_duration,
                           standard_green_duration + lane_density * 2),
          reason |-> "High Density ({lane_density}) - Extending Green"]
    ELSE IF lane_density < low_density
    THEN [action |-> "GREEN", duration |-> min_green_duration,
          reason |-> "Low Density - Minimal Green"]
    ELSE IF ambulance_detected
    THEN [action |-> "GREEN", duration |-> emergency_duration,
          reason |-> "Ambulance Detected - Green Corridor Active"]
    ELSE [action |-> "GREEN", duration |-> standard_green_duration,
          reason |-> "Normal Flow"]

\* variant: the green time of rule 2 is not capped
calculate_uncapped(lane_density, ambulance_detected) ==
    IF ambulance_detected
    THEN [action |-> "GREEN", duration |-> emergency_duration,
          reason |-> "Ambulance Detected - Green Corridor Active"]
    ELSE IF lane_density > high_density
    THEN [action |-> "GREEN",
          duration |-> standard_green_duration + lane_density * 2,
          reason |-> "High Density ({lane_density}) - Extending Green"]
    ELSE IF lane_density < low_density
    THEN [action |-> "GREEN", duration |-> min_green_duration,
          reason |-> "Low Density - Minimal Green"]
    ELSE [action |-> "GREEN", duration |-> standard_green_duration,
          reason |-> "Normal Flow"]

\* variant: rule 2 adds one second a vehicle, not two
calculate_single(lane_density, ambulance_detected) ==
    IF ambulance_detected
    THEN [action |-> "GREEN", duration |-> emergency_duration,
          reason |-> "Ambulance Detected - Green Corridor Active"]
    ELSE IF lane_density > high_density
    THEN [action |-> "GREEN",
          duration |-> Min(max_green_duration,
                           standard_green_duration + lane_density),
          reason |-> "High Density ({lane_density}) - Extending Green"]
    ELSE IF lane_density < low_density
    THEN [action |-> "GREEN", duration |-> min_green_duration,
          reason |-> "Low Density - Minimal Green"]
    ELSE [action |-> "GREEN", duration |-> standard_green_duration,
          reason |-> "Normal Flow"]

\* the dict calculate_signal_duration(lane_density, ambulance_detected) returns
calculate_signal_duration(lane_density, ambulance_detected) ==
    IF ambulance_detected
    THEN [action |-> "GREEN", duration |-> emergency_duration,
          reason |-> "Ambulance Detected - Green Corridor Active"]
    ELSE IF lane_density > high_density
    THEN [action |-> "GREEN",
          duration |-> Min(max_green_duration,
                           standard_green_duration + lane_density * 2),
          reason |-> "High Density ({lane_density}) - Extending Green"]
    ELSE IF lane_density < low_density
    THEN [action |-> "GREEN", duration |-> min_green_duration,
          reason |-> "Low Density - Minimal Green"]
    ELSE [action |-> "GREEN", duration |-> standard_green_duration,
          reason |-> "Normal Flow"]

InitSignal ==
    /\ SortIdle
    /\ assoc = NoCall
    /\ BoxSmootherInit(backend_window)
    /\ TrackLoopInit("backend")
    /\ EmergencyInit
    /\ PlateSmootherInit
    /\ TrafficControllerInit
    /\ WorkerInit

\* variant: a controller that has seen an emergency keeps the corridor open
DecideSticky(active, lane_density, ambulance_detected) ==
    calculate_signal_duration(lane_density, active \/ ambulance_detected)

\* calculate_signal_duration called on a controller whose
\* ambulance_priority_active is `active`: the attribute is written, never read
Decide(active, lane_density, ambulance_detected) ==
    calculate_signal_duration(lane_density, ambulance_detected)

\* the call, by a pipeline frame ("frame") or by any other caller ("call")
Call(by, flagged, lane_density, ambulance_detected) ==
    /\ LET status == Decide(ambulance_priority_active, lane_density,
                            ambulance_detected)
       IN  signal' = [called |-> TRUE, by |-> by, flagged |-> flagged,
                      after_emergency |-> signal.ambulance_detected,
                      lane_density |-> lane_density,
                      ambulance_detected |-> ambulance_detected,
                      action |-> status.action, duration |-> status.duration,
                      reason |-> status.reason]
    /\ ambulance_priority_active' =
          IF ambulance_detected THEN TRUE ELSE ambulance_priority_active
    /\ UNCHANGED <<sortVars, assoc, smootherVars, wrongWayVars, emergencyVars,
                   plateVars, workerVars>>

\* calculate_signal_duration(lane_density, ambulance_detected), any arguments
CalculateSignal(lane_density, ambulance_detected) ==
    Call("call", 0, lane_density, ambulance_detected)

\* variant: the flag of the last frame is carried into this one
ambulance_in_frame_kept(flagged) ==
    signal.ambulance_detected \/ flagged > 0

\* ambulance_in_frame = False, then True for every track of this frame that
\* detect_ambulance accepts (`flagged` of them)
ambulance_in_frame(flagged) ==
    flagged > 0

\* one frame of a pipeline: current_lane_density = len(tracks), the
\* emergency flag of this frame, then the signal call
SignalFrame(tracks, flagged) ==
    Call("frame", flagged, tracks, ambulance_in_frame(flagged))

NextSignal ==
    \/ \E lane_density \in (0 - NegDensities)..MaxDensity :
           \E ambulance_detected \in BOOLEAN :
              CalculateSignal(lane_density, ambulance_detected)
    \/ \E tracks \in 0..MaxDensity :
           \E flagged \in 0..Min(tracks, MaxFlagged) :
              SignalFrame(tracks, flagged)

SpecSignal == InitSignal /\ [][NextSignal]_vars

(* C19: whenever the emergency flag is true calculate_signal_duration        *)
(* returns action GREEN with duration 60 and the reason of the emergency     *)
(* rule, whatever the density.                                               *)
C19_EmergencyFirst ==
    (signal.called /\ signal.ambulance_detected) =>
        /\ signal.action = "GREEN"
        /\ signal.duration = 60
        /\ signal.reason = "Ambulance Detected - Green Corridor Active"

\* an emergency on a lane that the low-density rule would give 10 seconds
C19_Witness ==
    /\ signal.called
    /\ signal.ambulance_detected
    /\ signal.lane_density = 2
    /\ signal.duration = 60

(* C20: with the emergency flag false, a density above 15 gives              *)
(* min(60, 30 + 2 * density) under the high-density rule, otherwise a        *)
(* density below 5 gives 10 under the low-density rule, otherwise (5 to 15)  *)
(* the result is 30 under the normal-flow rule; the action is GREEN; a       *)
(* density of 20 gives 60 and a density of 2 gives 10.                       *)
C20_DensityRules ==
    (signal.called /\ ~signal.ambulance_detected) =>
        LET d == signal.lane_density
        IN  /\ signal.action = "GREEN"
            /\ d > 15 =>
                  /\ signal.duration = (IF 30 + 2 * d < 60 THEN 30 + 2 * d ELSE 60)
                  /\ signal.reason
                         = "High Density ({lane_density}) - Extending Green"
            /\ (d <= 15 /\ d < 5) =>
                  /\ signal.duration = 10
                  /\ signal.reason = "Low Density - Minimal Green"
            /\ (d >= 5 /\ d <= 15) =>
                  /\ signal.duration = 30
                  /\ signal.reason = "Normal Flow"
            /\ d = 20 => signal.duration = 60
            /\ d = 2 => signal.duration = 10

\* no emergency and a density of 20: the capped green time of rule 2
C20_Witness ==
    /\ signal.called
    /\ ~signal.ambulance_detected
    /\ signal.lane_density = 20
    /\ signal.duration = 60
    /\ signal.reason = "High Density ({lane_density}) - Extending Green"

(* C21: for every integer density, zero and negative ones included, and      *)
(* either value of the emergency flag, the action is GREEN, never RED, and   *)
(* the duration is at least the minimum green 10 and at most the maximum     *)
(* green 60.                                                                 *)
C21_GreenWithinLimits ==
    signal.called =>
        /\ signal.action = "GREEN"
        /\ signal.action # "RED"
        /\ signal.duration >= 10
        /\ signal.duration <= 60

\* a negative density without an emergency: the minimum green
C21_Witness ==
    /\ signal.called
    /\ signal.lane_density < 0
    /\ ~signal.ambulance_detected
    /\ signal.duration = 10

(* C22: the decision depends on the arguments of the call only: a controller *)
(* that never saw an emergency and one that did return, for the arguments    *)
(* of any call, the decision that call returned; and a pipeline frame sets   *)
(* the emergency flag from the tracks of that frame only, so a frame without *)
(* a flagged track gets a decision of the density rules, also directly after *)
(* an emergency frame.                                                       *)
C22_ArgumentsOnly ==
    signal.called =>
        LET decision == [action |-> signal.action,
                         duration |-> signal.duration,
                         reason |-> signal.reason]
        IN  /\ decision = Decide(FALSE, signal.lane_density,
                                 signal.ambulance_detected)
            /\ decision = Decide(TRUE, signal.lane_density,
                                 signal.ambulance_detected)
            /\ signal.by = "frame" =>
                  /\ signal.ambulance_detected = (signal.flagged > 0)
                  /\ signal.flagged = 0 =>
                        signal.reason
                            # "Ambulance Detected - Green Corridor Active"

\* a frame without a flagged track directly after an emergency frame
C22_Witness ==
    /\ signal.called
    /\ signal.by = "frame"
    /\ signal.flagged = 0
    /\ signal.after_emergency
    /\ ambulance_priority_active
    /\ signal.lane_density = 10
    /\ signal.reason = "Normal Flow"

-----------------------------------------------------------------------------
(* SpeedEstimator.  Coordinates and speeds are rationals <<num, den>>: the   *)
(* rounding of the float operations is left out, and the boxes are chosen    *)
(* so that every distance between two centres has a rational square root.    *)

MaxSpeedCalls == 3   \* calls of speed_estimator.update in a run

SpBoxes == {<<0, 0, 10, 10>>, <<1, 1, 9, 9>>, <<6, 8, 16, 18>>,
            <<3, 4, 13, 14>>, <<1, 2, 12, 12>>}

RatSub(p, q) == Rat(p[1] * q[2] - q[1] * p[2], p[2] * q[2])
RatMul(p, q) == Rat(p[1] * q[1], p[2] * q[2])

\* the integer square root
ISqrt(n) == CHOOSE r \in 0..n : r * r <= n /\ (r + 1) * (r + 1) > n

\* np.array([center_x, center_y])
Centre(bbox) == <<Rat(bbox[1] + bbox[3], 2), Rat(bbox[2] + bbox[4], 2)>>

\* np.linalg.norm(current_pos - prev_pos)
linalg_norm(current_pos, prev_pos) ==
    LET dx == RatSub(current_pos[1], prev_pos[1])
        dy == RatSub(current_pos[2], prev_pos[2])
        sq == RatAdd(RatMul(dx, dx), RatMul(dy, dy))
    IN  <<ISqrt(sq[1]), ISqrt(sq[2])>>

\* pixel_distance / pixels_per_meter * fps * 3.6
speed_kmh(pixel_distance) ==
    RatMul(RatMul(RatMul(pixel_distance, <<1, pixels_per_meter>>), <<fps, 1>>),
           <<36, 10>>)

\* dict.get(key, default)
Get(d, key, default) == IF key \in DOMAIN d THEN d[key] ELSE default

\* variant: the first position of a track is never replaced
SpeedUpdateFromFirst(est, track_id, bbox) ==
    LET current_pos == Centre(bbox)
        known == track_id \in DOMAIN est.prev_positions
        sp == IF known
              THEN (track_id :> speed_kmh(linalg_norm(current_pos,
                                              est.prev_positions[track_id])))
                   @@ est.speeds
              ELSE est.speeds
    IN  [prev_positions |-> IF known THEN est.prev_positions
                            ELSE (track_id :> current_pos) @@ est.prev_positions,
         speeds |-> sp,
         returned |-> Get(sp, track_id, <<0, 1>>)]

\* SpeedEstimator.update(track_id, bbox) on an estimator est: the two dicts
\* after the call and the value returned
SpeedEstimatorUpdate(est, track_id, bbox) ==
    LET current_pos == Centre(bbox)
        sp == IF track_id \in DOMAIN est.prev_positions
              THEN (track_id :> speed_kmh(linalg_norm(current_pos,
                                              est.prev_positions[track_id])))
                   @@ est.speeds
              ELSE est.speeds
    IN  [prev_positions |-> (track_id :> current_pos) @@ est.prev_positions,
         speeds |-> sp,
         returned |-> Get(sp, track_id, <<0, 1>>)]

InitSpeed ==
    /\ SortIdle
    /\ assoc = NoCall
    /\ BoxSmootherInit(worker_window)
    /\ TrackLoopInit("worker")
    /\ EmergencyInit
    /\ PlateSmootherInit
    /\ TrafficControllerInit
    /\ WorkerInit

\* speed_kmh = self.speed_estimator.update(tid, bbox)
SpeedUpdate(track_id, bbox) ==
    /\ TotalLen(observed, DOMAIN observed) < MaxSpeedCalls
    /\ LET r == SpeedEstimatorUpdate([prev_positions |-> prev_positions,
                                      speeds |-> speeds], track_id, bbox)
       IN  /\ prev_positions' = r.prev_positions
           /\ speeds' = r.speeds
           /\ speed' = [called |-> TRUE, track_id |-> track_id,
                        returned |-> r.returned]
    /\ observed' = (track_id :> Append(Get(observed, track_id, << >>), bbox))
                   @@ observed
    /\ UNCHANGED <<sortVars, assoc, smootherVars, wrongWayVars, emergencyVars,
                   plateVars, signalVars, loopVars, solverVars, historyVars,
                   serviceVars>>

NextSpeed == \E track_id \in TrackIds : \E bbox \in SpBoxes :
                 SpeedUpdate(track_id, bbox)

SpecSpeed == InitSpeed /\ [][NextSpeed]_vars

\* r is the speed in km/h of a move between the centres of boxes a and b:
\* px = r * pixels_per_meter / (fps * 3.6) is not negative and its square is
\* the squared distance, in doubled coordinates to stay within the integers
IsSpeedBetween(r, a, b) ==
    LET dx2 == (b[1] + b[3]) - (a[1] + a[3])
        dy2 == (b[2] + b[4]) - (a[2] + a[4])
        px == Rat(r[1] * pixels_per_meter * 10, r[2] * fps * 36)
    IN  /\ r[1] >= 0 /\ r[2] > 0
        /\ 4 * px[1] * px[1] = (dx2 * dx2 + dy2 * dy2) * px[2] * px[2]

(* C23: SpeedEstimator.update returns 0 on the first observation of a track  *)
(* id; on every later one it returns the speed computed from the distance    *)
(* between the centres of the previous and the current box of that id, so    *)
(* two identical boxes in a row give 0; after every call the stored previous *)
(* position of the id is the centre of the box just passed.                  *)
C23_SpeedFromLastCentre ==
    /\ DOMAIN prev_positions = DOMAIN observed
    /\ \A tid \in DOMAIN observed :
          LET h == observed[tid]
          IN  /\ prev_positions[tid][1][1] * 2
                    = (h[Len(h)][1] + h[Len(h)][3]) * prev_positions[tid][1][2]
              /\ prev_positions[tid][2][1] * 2
                    = (h[Len(h)][2] + h[Len(h)][4]) * prev_positions[tid][2][2]
    /\ speed.called =>
          LET h == observed[speed.track_id]
              n == Len(h)
          IN  /\ n = 1 => speed.returned[1] = 0
              /\ n > 1 => IsSpeedBetween(speed.returned, h[n - 1], h[n])
              /\ (n > 1 /\ h[n - 1] = h[n]) => speed.returned[1] = 0

\* track 1 seen twice, 5 pixels apart, with track 2 seen in between: 3.6 km/h
C23_Witness ==
    /\ speed.called
    /\ speed.track_id = 1
    /\ Len(observed[1]) = 2
    /\ 2 \in DOMAIN observed
    /\ speed.returned = <<18, 5>>

-----------------------------------------------------------------------------
(* The frame loop of a pipeline: `while self.cap.isOpened()`, one read per   *)
(* pass, and in the worker the telemetry sync behind its time gate.  Time is *)
(* counted in whole seconds.                                                 *)

MaxLoopReads == 5    \* frames read in a run
MaxFailedReads == 2  \* reads that fail in a run
MaxClock == 24       \* the run ends when time.time() would pass this

FrameTimes == {0, 1, 3}   \* seconds from the read of a frame to the gate
SyncTimes == {0, 1}       \* seconds log_traffic_data takes

\* variant: last_log_time is kept when the sync fails
TelemetryGateRetry(last, t1, ds, ok) ==
    IF t1 - last > LOG_INTERVAL
    THEN [attempted |-> TRUE, raised |-> FALSE,
          last_log_time |-> IF ok THEN t1 + ds ELSE last, done |-> t1 + ds]
    ELSE [attempted |-> FALSE, raised |-> FALSE, last_log_time |-> last,
          done |-> t1]

\* `if time.time() - self.last_log_time > LOG_INTERVAL:` at time t1, then
\* log_traffic_data, which takes ds seconds and catches what the insert
\* raises, then `self.last_log_time = time.time()`
TelemetryGate(last, t1, ds, ok) ==
    IF t1 - last > LOG_INTERVAL
    THEN [attempted |-> TRUE, raised |-> FALSE, last_log_time |-> t1 + ds,
          done |-> t1 + ds]
    ELSE [attempted |-> FALSE, raised |-> FALSE, last_log_time |-> last,
          done |-> t1]

\* variant: a read that fails ends the loop
read_failed_break(lp) ==
    [lp EXCEPT !.failed = @ + 1, !.pc = "stopped"]

\* `if not ret: self.cap.set(cv2.CAP_PROP_POS_FRAMES, 0); continue`
read_failed(lp) ==
    [lp EXCEPT !.failed = @ + 1, !.position = 0]

InitLoop ==
    /\ SortIdle
    /\ assoc = NoCall
    /\ \E p \in {"backend", "worker"} :
          /\ BoxSmootherInit(IF p = "worker" THEN worker_window
                             ELSE backend_window)
          /\ TrackLoopInit(p)
    /\ EmergencyInit
    /\ PlateSmootherInit
    /\ TrafficControllerInit
    /\ WorkerInit

\* one pass of the loop whose read succeeds
LoopFrame(dt, ds, ok) ==
    /\ loop.pc = "running"
    /\ loop.frames < MaxLoopReads
    /\ clock + dt + ds <= MaxClock
    /\ LET t1 == clock + dt
           r == IF pipeline = "worker"
                THEN TelemetryGate(last_log_time, t1, ds, ok)
                ELSE [attempted |-> FALSE, raised |-> FALSE,
                      last_log_time |-> last_log_time, done |-> t1]
       IN  /\ clock' = r.done
           /\ last_log_time' = r.last_log_time
           /\ sync_log' = IF r.attempted
                          THEN Append(sync_log,
                                      [frame |-> loop.frames + 1, at |-> t1,
                                       done |-> r.done, ok |-> ok])
                          ELSE sync_log
           /\ loop' = [loop EXCEPT !.frames = @ + 1, !.position = @ + 1,
                                   !.pc = IF r.raised THEN "stopped" ELSE @]
    /\ UNCHANGED <<sortVars, assoc, smootherVars, wrongWayVars, emergencyVars,
                   plateVars, signalVars, speedVars, solverVars, historyVars,
                   serviceVars>>

\* one pass of the loop whose read fails
EndOfStream ==
    /\ loop.pc = "running"
    /\ loop.failed < MaxFailedReads
    /\ loop' = read_failed(loop)
    /\ UNCHANGED <<sortVars, assoc, smootherVars, wrongWayVars, emergencyVars,
                   plateVars, signalVars, speedVars, clock, last_log_time,
                   sync_log, solverVars, historyVars,
                   serviceVars>>

\* the worker's `if cv2.waitKey(1) & 0xFF == ord('q'): break`
Quit ==
    /\ pipeline = "worker"
    /\ loop.pc = "running"
    /\ loop' = [loop EXCEPT !.pc = "stopped"]
    /\ UNCHANGED <<sortVars, assoc, smootherVars, wrongWayVars, emergencyVars,
                   plateVars, signalVars, speedVars, clock, last_log_time,
                   sync_log, solverVars, historyVars,
                   serviceVars>>

NextLoop ==
    \/ \E dt \in FrameTimes : \E ds \in SyncTimes : \E ok \in BOOLEAN :
          LoopFrame(dt, ds, ok)
    \/ EndOfStream
    \/ Quit

SpecLoop == InitLoop /\ [][NextLoop]_vars

(* C24: the worker attempts the telemetry sync at most once per frame and    *)
(* only when more than LOG_INTERVAL seconds have passed since the previous   *)
(* attempt; an attempt that fails neither stops the loop nor is repeated in  *)
(* the same frame, the next attempt comes after the next interval.           *)
C24_SyncGate ==
    /\ \A k \in 1..Len(sync_log) :
          /\ sync_log[k].frame <= loop.frames
          /\ k > 1 =>
                /\ sync_log[k].frame > sync_log[k - 1].frame
                /\ sync_log[k].at - sync_log[k - 1].done > 5
    /\ (loop.frames > 0 /\ loop.pc = "running") =>
          \A k \in 1..Len(sync_log) :
             (~sync_log[k].ok /\ sync_log[k].frame = loop.frames) =>
                 last_log_time = sync_log[k].done

\* a failed sync, frames without a sync, then the next sync
C24_Witness ==
    /\ Len(sync_log) = 2
    /\ ~sync_log[1].ok
    /\ sync_log[2].frame > sync_log[1].frame + 1
    /\ sync_log[2].at - sync_log[1].done = 6
    /\ loop.pc = "running"

(* C25 as stated: a read that fails (end of stream) stops the pipeline, the  *)
(* frame loop terminates.                                                    *)
C25_StopsAtEnd ==
    [][loop'.failed > loop.failed => loop'.pc = "stopped"]_vars

(* C25, amended: a read that fails (end of stream) does not stop the         *)
(* pipeline: the source is set back to its first frame, no frame is          *)
(* processed in that pass, and the loop goes on with the next read.          *)
C25_RewindsAtEnd ==
    [][loop'.failed > loop.failed =>
          /\ loop'.pc = "running"
          /\ loop'.position = 0
          /\ loop'.frames = loop.frames]_vars

\* frames are processed again after a read failed
C25_Witness ==
    /\ loop.failed = 1
    /\ loop.frames = 3
    /\ loop.position = 1
    /\ loop.pc = "running"

-----------------------------------------------------------------------------
(* linear_assignment and the solvers it imports.  lap is "ok", "missing"     *)
(* (import lap raises ImportError) or "broken" (the import or lapjv raises   *)
(* another exception); scipy is "ok" or "missing".                           *)

Solvers == {[lap |-> l, scipy |-> sc] :
               l \in {"ok", "missing", "broken"}, sc \in {"ok", "missing"}}

\* linear_assignment(-iou_matrix) in a process with the solvers env: the
\* outcomes of the call.  Only ImportError is caught, and only around lap.
linear_assignment_in(env, iou_matrix, nd, nt) ==
    IF env.lap = "ok" \/ (env.lap = "missing" /\ env.scipy = "ok")
    THEN {[raised |-> FALSE, matched_indices |-> mi] :
             mi \in linear_assignment(iou_matrix, nd, nt)}
    ELSE {[raised |-> TRUE, matched_indices |-> {}]}

InitSolver ==
    /\ SortIdle
    /\ assoc \in {a \in AssociateArgs : Len(a.trackers) > 0}
    /\ BoxSmootherInit(backend_window)
    /\ TrackLoopInit("backend")
    /\ EmergencyInit
    /\ PlateSmootherInit
    /\ TrafficControllerInit
    /\ SpeedEstimatorInit
    /\ FrameLoopInit
    /\ \E env \in Solvers : SolverInit(env)
    /\ track_log = [born |-> << >>, hit |-> << >>]
    /\ ServiceInit

\* lines 111-119 of associate_detections_to_trackers: matched_indices comes
\* from the thresholded matrix, from linear_assignment, or is empty
MatchingStep ==
    /\ ~assigned.called
    /\ LET iou_matrix == iou_batch(assoc.detections, assoc.trackers)
           nd == Len(assoc.detections)
           nt == Len(assoc.trackers)
       IN  IF Min(nd, nt) > 0
           THEN IF FastPath(AboveSet(iou_matrix, nd, nt))
                THEN assigned' = [called |-> TRUE, solved |-> FALSE,
                                  raised |-> FALSE,
                                  matched_indices |->
                                      AboveSet(iou_matrix, nd, nt)]
                ELSE \E r \in linear_assignment_in(solver, iou_matrix, nd, nt) :
                        assigned' = [called |-> TRUE, solved |-> TRUE,
                                     raised |-> r.raised,
                                     matched_indices |-> r.matched_indices]
           ELSE assigned' = [called |-> TRUE, solved |-> FALSE,
                             raised |-> FALSE, matched_indices |-> {}]
    /\ UNCHANGED <<sortVars, assoc, smootherVars, wrongWayVars, emergencyVars,
                   plateVars, signalVars, speedVars, loopVars, solver, historyVars,
                   serviceVars>>

NextSolver == MatchingStep

SpecSolver == InitSolver /\ [][NextSolver]_vars

\* A is a complete assignment of maximal total IOU
Optimal(iou_matrix, nd, nt, A) ==
    /\ A \in FullAssignments(nd, nt)
    /\ \A B \in FullAssignments(nd, nt) :
          RatGE(TotalIou(iou_matrix, A), TotalIou(iou_matrix, B))

(* C26: when the preferred solver (lap) fails or is not installed while the  *)
(* alternate one (scipy) is there, linear_assignment still returns a         *)
(* matching of maximal total IOU and nothing is raised out of the            *)
(* association.                                                              *)
C26_SolverFallback ==
    (assigned.called /\ assigned.solved
        /\ solver.lap # "ok" /\ solver.scipy = "ok") =>
        /\ ~assigned.raised
        /\ Optimal(iou_batch(assoc.detections, assoc.trackers),
                   Len(assoc.detections), Len(assoc.trackers),
                   assigned.matched_indices)

-----------------------------------------------------------------------------
(* The tracking step of the orchestrators:                                   *)
(* `tracks = self.tracker.update(np.asarray(detections))`.  np.asarray of a  *)
(* list of n >= 1 rows has shape (n, 5); of the empty list it has shape      *)
(* (0,), and iou_batch indexes column 1 of an array whose last axis, after   *)
(* expand_dims, has length 1: IndexError.                                    *)

\* Sort.update(np.asarray([])) on instance i when a finite row is left in
\* trks: frame_count is raised, the tracks are predicted, those with a NaN
\* box are popped, then iou_batch raises and the exception leaves the loop
EmptyFrameRaises(i) ==
    /\ frame_count[1] + frame_count[2] < MaxFrames
    /\ \E p \in SeqProduct([t \in 1..Len(trackers[i]) |-> KfPredict(trackers[i][t])]) :
         LET predicted == [t \in 1..Len(p) |-> predict(trackers[i][t], p[t])]
             kept == KeptTracks(p)
         IN  /\ FiniteRows(p) # << >>
             /\ frame_count' = [frame_count EXCEPT ![i] = @ + 1]
             /\ trackers' = [trackers EXCEPT ![i] =
                                [k \in 1..Len(kept) |-> predicted[kept[k]]]]
             /\ prev' = [prev EXCEPT ![i] = trackers[i]]
             /\ dets' = [dets EXCEPT ![i] = << >>]
             /\ pos' = [pos EXCEPT ![i] = p]
             /\ matched' = [matched EXCEPT ![i] = << >>]
             /\ ret' = [ret EXCEPT ![i] = << >>]
    /\ loop' = [loop EXCEPT !.pc = "raised"]
    /\ UNCHANGED <<count, max_age, issued, overflows, assoc, smootherVars,
                   wrongWayVars, emergencyVars, plateVars, signalVars,
                   speedVars, clock, last_log_time, sync_log, solverVars, historyVars,
                   serviceVars>>

\* the tracking step of a frame whose detection list is `detections`
TrackingStep(detections) ==
    /\ loop.pc = "running"
    /\ \/ /\ detections # << >>
          /\ SortUpdate(1, detections)
          /\ UNCHANGED restVars
       \/ /\ detections = << >>
          /\ SortUpdate(1, detections)
          /\ FiniteRows(pos'[1]) = << >>
          /\ UNCHANGED restVars
       \/ /\ detections = << >>
          /\ EmptyFrameRaises(1)

NextPipeline == \E d \in ObjectInputs : TrackingStep(d)

SpecPipeline == Init /\ [][NextPipeline]_vars

(* C27: a frame without a vehicle, passed on as np.asarray([]), advances the *)
(* tracker by one frame without raising, with no track and with live tracks: *)
(* the live tracks are left unmatched and the output is empty.               *)
C27_EmptyFrame ==
    (frame_count[1] > 0 /\ dets[1] = << >>) =>
        /\ loop.pc = "running"
        /\ frame_count[1] > 0
        /\ matched[1] = << >>
        /\ ret[1] = << >>
        /\ Len(trackers[1]) <= Len(prev[1])

-----------------------------------------------------------------------------
(* One object in view, detected or missed on each frame, over a longer run:  *)
(* the frames on which update() ran on each track are recorded.              *)

MaxStreakFrames == 8   \* update calls of the run

\* the ids of the tracks update() was called on
UpdatedIds(i) == {prev[i][k].id : k \in Updated(i)}

\* track_log after a call that ended frame fc: created are the ids of the
\* tracks it constructed, hit the ids of the tracks it ran update() on
LogAfter(log, fc, created, hit) ==
    [born |-> [id \in created |-> fc] @@ log.born,
     hit |-> [id \in DOMAIN log.born \cup created |->
                (IF id \in DOMAIN log.hit THEN log.hit[id] ELSE {})
                \cup (IF id \in hit THEN {fc} ELSE {})]]

StreakFrame(detections) ==
    /\ SortUpdateWithin(1, detections, MaxStreakFrames)
    /\ track_log' = LogAfter(track_log, frame_count'[1],
                             Range(issued'[1]) \ Range(issued[1]),
                             UpdatedIds(1)')
    /\ UNCHANGED <<assoc, smootherVars, wrongWayVars, emergencyVars, plateVars,
                   signalVars, speedVars, loopVars, solverVars, serviceVars>>

NextStreak == \E d \in {<< >>, <<BoxW>>} : StreakFrame(d)

SpecStreak == Init /\ [][NextStreak]_vars

\* update() ran on track id on every one of the n frames up to frame fc
HitOnLast(id, fc, n) ==
    \A f \in (fc - n + 1)..fc : f >= 1 /\ f \in track_log.hit[id]

(* C28: after the start-up frames (frame_count > min_hits) a track is in the *)
(* output of a frame only if it was matched on that frame and on the         *)
(* min_hits - 1 frames before it: not on the frame that created it, and not, *)
(* after it coasted and was matched again, before it has been matched on     *)
(* min_hits frames in a row.                                                 *)
C28_StreakBeforeOutput ==
    LET fc == frame_count[1]
    IN  fc > min_hits =>
          \A id \in DOMAIN track_log.born :
             id + 1 \in Range(ret[1]) =>
                /\ HitOnLast(id, fc, min_hits)
                /\ track_log.born[id] # fc
                /\ \A g \in (track_log.born[id] + 1)..fc :
                      g \notin track_log.hit[id] => g + min_hits <= fc

\* a track of the start-up frames has coasted on frame 4 and is in the
\* output again on frame 7, after the matches of frames 5, 6 and 7
C28_Witness ==
    /\ frame_count[1] = 7
    /\ 0 \in DOMAIN track_log.born
    /\ track_log.born[0] = 1
    /\ track_log.hit[0] = {2, 3, 5, 6, 7}
    /\ Range(ret[1]) = {1}

-----------------------------------------------------------------------------
\* the positions in prev[i] of the tracks whose predicted box the association
\* paired with a detection
MatchedRows(i) == {RowTrack(i, matched[i][k]) : k \in DOMAIN matched[i]}

\* the tracks the call removed for their time_since_update, as positions in
\* prev[i]
ExpiredRows(i) ==
    {k \in DOMAIN prev[i] \ ToDel(pos[i]) :
        k \notin Updated(i) /\ prev[i][k].time_since_update + 1 > max_age}

(* C29: a live track that the association did not match is left as predict  *)
(* left it: same id and hits, age and time_since_update one higher, the      *)
(* predicted box uncorrected; and the number of live tracks after a call is  *)
(* the number before, minus the tracks dropped as non-finite, plus the       *)
(* unmatched detections (one new track each), minus the expired tracks.      *)
C29_UnmatchedLeftAlone ==
    \A i \in Insts :
        /\ \A k \in DOMAIN prev[i] :
              LET o == prev[i][k]
              IN  (o.id \in LiveIds(i) /\ k \notin MatchedRows(i)) =>
                     /\ Same(i, o).hits = o.hits
                     /\ Same(i, o).age = o.age + 1
                     /\ Same(i, o).time_since_update = o.time_since_update + 1
                     /\ Same(i, o).x = pos[i][k]
        /\ Len(trackers[i]) =
              Len(prev[i]) - Cardinality(ToDel(pos[i]))
              + (Len(dets[i]) - Len(matched[i]))
              - Cardinality(ExpiredRows(i))
        /\ Cardinality(LiveIds(i) \ {prev[i][k].id : k \in DOMAIN prev[i]})
              = Len(dets[i]) - Len(matched[i])

-----------------------------------------------------------------------------
\* the sequence s lists every element of 1..n once and nothing else
ListsOnce(s, n) == Len(s) = n /\ Range(s) = 1..n

(* C30: the result of associate_detections_to_trackers is a one-to-one       *)
(* partial matching that partitions its inputs: no detection index and no    *)
(* track index is in two matches, every detection index is exactly once in   *)
(* the matches or the unmatched detections, and every track index exactly    *)
(* once in the matches or the unmatched tracks.                              *)
C30_Partition ==
    assoc.called =>
        LET r == assoc.result
            md == [k \in DOMAIN r.matches |-> r.matches[k][1]]
            mt == [k \in DOMAIN r.matches |-> r.matches[k][2]]
        IN  /\ \A j, k \in DOMAIN r.matches :
                  (md[j] = md[k] \/ mt[j] = mt[k]) => j = k
            /\ ListsOnce(md \o r.unmatched_detections, Len(assoc.detections))
            /\ ListsOnce(mt \o r.unmatched_trackers, Len(assoc.trackers))

\* two detections and two tracks: one pair matched, the other pair of the
\* assignment under the threshold and listed as unmatched on both sides
C30_Witness ==
    /\ assoc.called
    /\ Len(assoc.detections) = 2
    /\ Len(assoc.trackers) = 2
    /\ Len(assoc.result.matches) = 1
    /\ Len(assoc.result.unmatched_detections) = 1
    /\ Len(assoc.result.unmatched_trackers) = 1

-----------------------------------------------------------------------------
(* The association at the threshold: a detection and a track whose IOU is    *)
(* iou_threshold exactly, alone or next to other boxes that overlap neither. *)

GateP == Bx("fin", 0, 0, 6, 1)      \* a detection
GateQ == Bx("fin", 3, 0, 10, 1)     \* a track, IOU(P,Q) = 3/10
GateR == Bx("fin", 20, 0, 30, 1)    \* a detection disjoint from P and Q
GateS == Bx("fin", 22, 0, 30, 1)    \* a track, IOU(R,S) = 8/10
GateT == Bx("fin", 40, 0, 50, 1)    \* a track disjoint from all of them
GateU == Bx("fin", 60, 0, 70, 1)    \* a detection disjoint from all of them

\* the sequences without repetition over the set S
RECURSIVE Arrangements(_)
Arrangements(S) ==
    {<< >>} \cup UNION {{<<x>> \o r : r \in Arrangements(S \ {x})} : x \in S}

GateArgs ==
    {[detections |-> d, trackers |-> t, called |-> FALSE, result |-> NoResult] :
        d \in Arrangements({GateP, GateR, GateU}),
        t \in Arrangements({GateQ, GateS, GateT})}

InitGate ==
    /\ SortIdle
    /\ assoc \in GateArgs
    /\ BoxSmootherInit(backend_window)
    /\ TrackLoopInit("backend")
    /\ EmergencyInit
    /\ PlateSmootherInit
    /\ TrafficControllerInit
    /\ WorkerInit

\* the call returns
GateCall ==
    /\ ~assoc.called
    /\ \E r \in associate_detections_to_trackers(assoc.detections,
                                                 assoc.trackers) :
          assoc' = [assoc EXCEPT !.called = TRUE, !.result = r]
    /\ UNCHANGED <<sortVars, smootherVars, wrongWayVars, emergencyVars,
                   plateVars, signalVars, workerVars>>

SpecGate == InitGate /\ [][GateCall]_vars

\* the result r of a call on (detections, trks) pairs the boxes det and trk
PairMatched(r, detections, trks, det, trk) ==
    \E k \in DOMAIN r.matches :
        /\ detections[r.matches[k][1]] = det
        /\ trks[r.matches[k][2]] = trk

\* P and Q are matched when they are alone in the frame
MatchedAlone ==
    \A r \in associate_detections_to_trackers(<<GateP>>, <<GateQ>>) :
        PairMatched(r, <<GateP>>, <<GateQ>>, GateP, GateQ)

(* C31: a detection and a track that overlap only each other, with an IOU    *)
(* equal to iou_threshold, are matched or not matched the same way alone in  *)
(* the frame and next to another, disjoint pair whose IOU is above the       *)
(* threshold.                                                                *)
C31_GateAlike ==
    (/\ assoc.called
     /\ Range(assoc.detections) \in {{GateP}, {GateP, GateR}}
     /\ Range(assoc.trackers) \in {{GateQ}, {GateQ, GateS}}
     /\ Len(assoc.detections) = Len(assoc.trackers)) =>
        (PairMatched(assoc.result, assoc.detections, assoc.trackers,
                     GateP, GateQ) <=> MatchedAlone)

-----------------------------------------------------------------------------
(* The size of the output of Sort.update *)

(* C32: the output of a Sort.update call holds pairwise different ids and at *)
(* most as many tracks as the call was given detections; every track in it   *)
(* is a live one on which update() ran, or which was created, in this call   *)
(* (time_since_update 0), so len(tracks), the lane density, counts no        *)
(* coasting track.                                                           *)
C32_OutputWithinDetections ==
    \A i \in Insts :
        /\ \A j, k \in DOMAIN ret[i] : j # k => ret[i][j] # ret[i][k]
        /\ Len(ret[i]) <= Len(dets[i])
        /\ \A k \in DOMAIN ret[i] :
              \E t \in Live(i) :
                  t.id + 1 = ret[i][k] /\ t.time_since_update = 0

\* a call with two detections outputs two tracks while a third one coasts
C32_Witness ==
    /\ Len(dets[1]) = 2
    /\ Len(ret[1]) = 2
    /\ \E t \in Live(1) : t.time_since_update > 0 /\ t.id + 1 \notin Range(ret[1])

-----------------------------------------------------------------------------
(* The counters of a live track *)

(* C33: at the end of every Sort.update call every live track has            *)
(* 0 <= hit_streak <= hits <= age and 0 <= time_since_update <= age, and its *)
(* list of predicted boxes is as long as its time_since_update, hence no     *)
(* longer than max_age.                                                      *)
C33_CounterOrder ==
    \A i \in Insts : \A t \in Live(i) :
        /\ 0 <= t.hit_streak
        /\ t.hit_streak <= t.hits
        /\ t.hits <= t.age
        /\ 0 <= t.time_since_update
        /\ t.time_since_update <= t.age
        /\ t.history = t.time_since_update
        /\ t.history <= max_age

\* one track was matched again after a miss, another has coasted for max_age
\* frames
C33_Witness ==
    /\ \E t \in Live(1) : t.hit_streak = 1 /\ t.hits = 2 /\ t.age = 3
    /\ \E t \in Live(1) : t.time_since_update = max_age /\ t.history = max_age

-----------------------------------------------------------------------------
(* The values of the green time *)

(* C34: without an emergency every density above 15 gets a duration of 60    *)
(* exactly; whatever the arguments, the duration is one of 10, 30 and 60;    *)
(* and of two calls with the same emergency flag the one with the larger     *)
(* density does not get the shorter duration.                                *)
C34_ThreeDurations ==
    /\ [](signal.called =>
            /\ (signal.lane_density > 15 /\ ~signal.ambulance_detected) =>
                  signal.duration = 60
            /\ signal.duration \in {10, 30, 60})
    /\ [][(/\ signal.called
           /\ signal'.called
           /\ signal'.ambulance_detected = signal.ambulance_detected
           /\ signal'.lane_density >= signal.lane_density) =>
               signal'.duration >= signal.duration]_vars

\* no emergency and 16 vehicles, the smallest density of rule 2: 60 seconds
C34_Witness ==
    /\ signal.called
    /\ ~signal.ambulance_detected
    /\ signal.lane_density = 16
    /\ signal.duration = 60

-----------------------------------------------------------------------------
(* The average speed of a telemetry sync (processor.py, lines 352-359 and    *)
(* 534-539)                                                                  *)

MaxSpeedFrames == 3   \* frames of the worker in a run

AvgBoxes == {<<0, 0, 10, 10>>, <<3, 4, 13, 14>>, <<6, 8, 16, 18>>}

\* sum(d[k] for k in keys)
RECURSIVE SumOver(_, _)
SumOver(d, keys) ==
    IF keys = {} THEN <<0, 1>>
    ELSE LET k == CHOOSE x \in keys : TRUE
         IN  RatAdd(d[k], SumOver(d, keys \ {k}))

\* lines 535-537: avg_speed over self.vehicle_speeds
AverageSpeed(vs) ==
    IF Cardinality(DOMAIN vs) > 0
    THEN RatMul(SumOver(vs, DOMAIN vs), <<1, Cardinality(DOMAIN vs)>>)
    ELSE <<0, 1>>

(* The loop of lines 352-359 over the tracks of a frame, tr[tid] the box     *)
(* car_smoother.update returned for track tid: the estimator, the boxes it   *)
(* was given and self.vehicle_speeds after the tracks in `todo`.             *)
RECURSIVE SpeedLoop(_, _, _)
SpeedLoop(st, tr, todo) ==
    IF todo = {} THEN st
    ELSE LET tid == CHOOSE x \in todo : \A y \in todo : x <= y
             r == SpeedEstimatorUpdate(st.est, tid, tr[tid])
         IN  SpeedLoop([est |-> [prev_positions |-> r.prev_positions,
                                 speeds |-> r.speeds],
                        last |-> [called |-> TRUE, track_id |-> tid,
                                  returned |-> r.returned],
                        observed |-> (tid :> Append(Get(st.observed, tid, << >>),
                                                    tr[tid])) @@ st.observed,
                        vehicle_speeds |-> (tid :> r.returned)
                                           @@ st.vehicle_speeds],
                       tr, todo \ {tid})

InitAverage ==
    /\ SortIdle
    /\ assoc = NoCall
    /\ BoxSmootherInit(worker_window)
    /\ TrackLoopInit("worker")
    /\ EmergencyInit
    /\ PlateSmootherInit
    /\ TrafficControllerInit
    /\ WorkerInit

\* one frame of the worker with the tracks tr; due says whether the telemetry
\* gate of line 520 lets the sync happen
SpeedFrame(tr, due) ==
    /\ telemetry.frames < MaxSpeedFrames
    /\ LET st == SpeedLoop([est |-> [prev_positions |-> prev_positions,
                                     speeds |-> speeds],
                            last |-> speed, observed |-> observed,
                            vehicle_speeds |-> vehicle_speeds],
                           tr, DOMAIN tr)
       IN  /\ prev_positions' = st.est.prev_positions
           /\ speeds' = st.est.speeds
           /\ speed' = st.last
           /\ observed' = st.observed
           /\ vehicle_speeds' = st.vehicle_speeds
           /\ telemetry' = [frames |-> telemetry.frames + 1,
                            tracks |-> DOMAIN tr,
                            synced |-> due,
                            avg_speed |-> IF due
                                          THEN AverageSpeed(st.vehicle_speeds)
                                          ELSE telemetry.avg_speed]
    /\ UNCHANGED <<sortVars, assoc, smootherVars, wrongWayVars, emergencyVars,
                   plateVars, signalVars, loopVars, solverVars, historyVars,
                   retry, handlerVars>>

NextAverage ==
    \E ids \in SUBSET TrackIds : \E tr \in [ids -> AvgBoxes] :
        \E due \in BOOLEAN : SpeedFrame(tr, due)

SpecAverage == InitAverage /\ [][NextAverage]_vars

(* C35: the average speed sent with a telemetry sync is the mean of the      *)
(* speeds of the tracks of the current frame; a track that is not output in  *)
(* this frame does not contribute to it.                                     *)
C35_AverageOfFrame ==
    (telemetry.synced /\ telemetry.tracks # {}) =>
        LET n == Cardinality(telemetry.tracks)
            total == SumOver(vehicle_speeds, telemetry.tracks)
        IN  telemetry.avg_speed[1] * total[2] * n
               = total[1] * telemetry.avg_speed[2]

-----------------------------------------------------------------------------
(* retry_on_failure (worker/utils/error_handler.py, lines 21-79) *)

MaxRetries == 3   \* largest max_retries a decorator is built with

\* what an invocation of the wrapped function does: it returns, or raises an
\* exception of one of these types
Raised == {"ConnectionError", "TimeoutError", "ValueError", "KeyboardInterrupt"}
Outcomes == {"ok"} \cup Raised

\* the classes an exception type derives from, itself included
Bases(type) ==
    IF type \in {"ConnectionError", "TimeoutError"}
    THEN {type, "OSError", "Exception", "BaseException"}
    ELSE IF type = "ValueError" THEN {type, "Exception", "BaseException"}
    ELSE {type, "BaseException"}

\* `except exceptions` catches an exception of this type
Catches(exceptions, type) == Bases(type) \cap Range(exceptions) # {}

\* the arguments of retry_database, of retry_network, and others
RetryArgs ==
    {[max_retries |-> n, delay |-> <<d, 1>>, backoff |-> b, exceptions |-> e] :
        n \in 0..MaxRetries, d \in {1, 2}, b \in {<<2, 1>>, <<3, 2>>},
        e \in {<<"Exception">>, <<"ConnectionError", "TimeoutError">>}}

\* variant: range(max_retries) in place of range(max_retries + 1)
RECURSIVE wrapper_short(_, _, _)
wrapper_short(cfg, outcomes, st) ==
    IF st.attempt >= cfg.max_retries
    THEN [st EXCEPT !.pc = "raised", !.exception = st.last_exception]
    ELSE LET o == outcomes[st.attempt + 1]
             called == [st EXCEPT !.invocations = @ + 1]
         IN  IF o = "ok"
             THEN [called EXCEPT !.pc = "returned", !.value = st.attempt + 1]
             ELSE IF ~Catches(cfg.exceptions, o)
             THEN [called EXCEPT !.pc = "raised",
                                 !.exception = [type |-> o,
                                                from |-> st.attempt + 1]]
             ELSE LET caught == [called EXCEPT
                                   !.last_exception = [type |-> o,
                                                       from |-> st.attempt + 1],
                                   !.attempt = @ + 1]
                  IN  IF st.attempt < cfg.max_retries
                      THEN wrapper_short(cfg, outcomes,
                               [caught EXCEPT
                                  !.slept = Append(@, st.current_delay),
                                  !.current_delay = RatMul(@, cfg.backoff)])
                      ELSE wrapper_short(cfg, outcomes, caught)

\* variant: the delay is not multiplied by backoff
RECURSIVE wrapper_flat(_, _, _)
wrapper_flat(cfg, outcomes, st) ==
    IF st.attempt >= cfg.max_retries + 1
    THEN [st EXCEPT !.pc = "raised", !.exception = st.last_exception]
    ELSE LET o == outcomes[st.attempt + 1]
             called == [st EXCEPT !.invocations = @ + 1]
         IN  IF o = "ok"
             THEN [called EXCEPT !.pc = "returned", !.value = st.attempt + 1]
             ELSE IF ~Catches(cfg.exceptions, o)
             THEN [called EXCEPT !.pc = "raised",
                                 !.exception = [type |-> o,
                                                from |-> st.attempt + 1]]
             ELSE LET caught == [called EXCEPT
                                   !.last_exception = [type |-> o,
                                                       from |-> st.attempt + 1],
                                   !.attempt = @ + 1]
                  IN  IF st.attempt < cfg.max_retries
                      THEN wrapper_flat(cfg, outcomes,
                               [caught EXCEPT
                                  !.slept = Append(@, st.current_delay)])
                      ELSE wrapper_flat(cfg, outcomes, caught)

(* The wrapper of lines 46-76, from iteration st.attempt of the loop of     *)
(* line 50 on; outcomes[k] is what the k-th invocation of func does,         *)
(* the value func returns on its k-th invocation is k.                       *)
RECURSIVE wrapper(_, _, _)
wrapper(cfg, outcomes, st) ==
    IF st.attempt >= cfg.max_retries + 1
    THEN [st EXCEPT !.pc = "raised", !.exception = st.last_exception]
    ELSE LET o == outcomes[st.attempt + 1]
             called == [st EXCEPT !.invocations = @ + 1]
         IN  IF o = "ok"
             THEN [called EXCEPT !.pc = "returned", !.value = st.attempt + 1]
             ELSE IF ~Catches(cfg.exceptions, o)
             THEN [called EXCEPT !.pc = "raised",
                                 !.exception = [type |-> o,
                                                from |-> st.attempt + 1]]
             ELSE LET caught == [called EXCEPT
                                   !.last_exception = [type |-> o,
                                                       from |-> st.attempt + 1],
                                   !.attempt = @ + 1]
                  IN  IF st.attempt < cfg.max_retries
                      THEN wrapper(cfg, outcomes,
                               [caught EXCEPT
                                  !.slept = Append(@, st.current_delay),
                                  !.current_delay = RatMul(@, cfg.backoff)])
                      ELSE wrapper(cfg, outcomes, caught)

InitRetry ==
    /\ SortIdle
    /\ assoc = NoCall
    /\ BoxSmootherInit(worker_window)
    /\ TrackLoopInit("worker")
    /\ EmergencyInit
    /\ PlateSmootherInit
    /\ TrafficControllerInit
    /\ WorkerInit

\* a call of a function decorated with retry_on_failure(**cfg)
RetryCall(cfg, outcomes) ==
    /\ retry.pc = "idle"
    /\ LET r == wrapper(cfg, outcomes,
                        [pc |-> "running", attempt |-> 0,
                         current_delay |-> cfg.delay,
                         last_exception |-> [type |-> "none", from |-> 0],
                         invocations |-> 0, slept |-> << >>, value |-> 0,
                         exception |-> [type |-> "none", from |-> 0]])
       IN  retry' = [pc |-> r.pc, max_retries |-> cfg.max_retries,
                     delay |-> cfg.delay, backoff |-> cfg.backoff,
                     exceptions |-> cfg.exceptions, outcomes |-> outcomes,
                     invocations |-> r.invocations, slept |-> r.slept,
                     value |-> r.value, exception |-> r.exception]
    /\ UNCHANGED <<sortVars, assoc, smootherVars, wrongWayVars, emergencyVars,
                   plateVars, signalVars, speedVars, loopVars, solverVars,
                   historyVars, averageVars, handlerVars>>

NextRetry ==
    \E cfg \in RetryArgs : \E outcomes \in [1..(cfg.max_retries + 1) -> Outcomes] :
        RetryCall(cfg, outcomes)

SpecRetry == InitRetry /\ [][NextRetry]_vars

\* b to the power k
RECURSIVE RatPow(_, _)
RatPow(b, k) == IF k = 0 THEN <<1, 1>> ELSE RatMul(b, RatPow(b, k - 1))

(* C36: a call of a function wrapped by retry_on_failure(max_retries=N)      *)
(* invokes it at most N+1 times; each invocation but the last raised an      *)
(* exception of a configured type, and before the k-th retry the wrapper     *)
(* slept delay * backoff^(k-1); a successful invocation ends the call with   *)
(* its result; an exception of a type that is not configured ends the call   *)
(* at once with that exception; after N+1 failures the call raises the       *)
(* exception of the last invocation.                                         *)
C36_RetryBudget ==
    retry.pc # "idle" =>
        LET n == retry.invocations
            o == retry.outcomes
            caught(k) == o[k] # "ok" /\ Bases(o[k]) \cap Range(retry.exceptions) # {}
        IN  /\ n >= 1
            /\ n <= retry.max_retries + 1
            /\ \A k \in 1..(n - 1) : caught(k)
            /\ Len(retry.slept) = n - 1
            /\ \A k \in 1..(n - 1) :
                  retry.slept[k] = RatMul(retry.delay, RatPow(retry.backoff, k - 1))
            /\ o[n] = "ok" => (retry.pc = "returned" /\ retry.value = n)
            /\ o[n] # "ok" =>
                  /\ retry.pc = "raised"
                  /\ retry.exception = [type |-> o[n], from |-> n]
            /\ caught(n) => n = retry.max_retries + 1

\* retry_database on a function that fails twice and then succeeds
C36_Witness ==
    /\ retry.pc = "returned"
    /\ retry.max_retries = 3
    /\ retry.exceptions = <<"Exception">>
    /\ retry.invocations = 3
    /\ retry.slept = <<<<1, 1>>, <<2, 1>>>>
    /\ retry.value = 3

-----------------------------------------------------------------------------
(* ErrorHandler (worker/utils/error_handler.py, lines 118-202) *)

error_threshold == 10

MaxHandlerCalls == 12   \* calls of methods of the ErrorHandler in a run

\* variant: the worker is stopped one error later
handle_video_error_late(ec) ==
    [error_count |-> ec + 1, returned |-> ~(ec + 1 > error_threshold)]

\* handle_video_error when error_count is ec
handle_video_error(ec) ==
    [error_count |-> ec + 1, returned |-> ~(ec + 1 >= error_threshold)]

\* variant: a model error counts like a video error
handle_model_error_counted(ec) == [error_count |-> ec + 1, returned |-> TRUE]

\* handle_model_error when error_count is ec
handle_model_error(ec) == [error_count |-> ec, returned |-> TRUE]

\* handle_database_error when error_count is ec
handle_database_error(ec) == [error_count |-> ec, returned |-> TRUE]

\* reset_error_count
reset_error_count(ec) == [error_count |-> 0, returned |-> TRUE]

InitHandler ==
    /\ SortIdle
    /\ assoc = NoCall
    /\ BoxSmootherInit(worker_window)
    /\ TrackLoopInit("worker")
    /\ EmergencyInit
    /\ PlateSmootherInit
    /\ TrafficControllerInit
    /\ WorkerInit

\* a call of the method op, r what it does to the handler
Handle(op, r) ==
    /\ handled.calls < MaxHandlerCalls
    /\ error_count' = r.error_count
    /\ handled' = [op |-> op, returned |-> r.returned,
                   calls |-> handled.calls + 1,
                   resets |-> handled.resets + (IF op = "reset" THEN 1 ELSE 0),
                   since |-> IF op = "reset" THEN 0
                             ELSE IF op = "video" THEN handled.since + 1
                             ELSE handled.since,
                   before |-> error_count]
    /\ UNCHANGED <<sortVars, assoc, smootherVars, wrongWayVars, emergencyVars,
                   plateVars, signalVars, speedVars, loopVars, solverVars,
                   historyVars, averageVars, retry>>

HandleVideoError == Handle("video", handle_video_error(error_count))
HandleModelError == Handle("model", handle_model_error(error_count))
HandleDatabaseError == Handle("database", handle_database_error(error_count))
ResetErrorCount == Handle("reset", reset_error_count(error_count))

NextHandler ==
    \/ HandleVideoError
    \/ HandleModelError
    \/ HandleDatabaseError
    \/ ResetErrorCount

SpecHandler == InitHandler /\ [][NextHandler]_vars

(* C37: handle_video_error returns False exactly when the video errors       *)
(* handled since construction or since the last reset_error_count, this one  *)
(* included, number 10 or more, and True before that; handle_model_error and *)
(* handle_database_error return True and leave the error count as it was.    *)
C37_StopAtThreshold ==
    /\ handled.op = "video" => (handled.returned <=> handled.since < 10)
    /\ handled.op \in {"model", "database"} =>
          /\ handled.returned
          /\ error_count = handled.before

\* the tenth video error after a reset, with a video error before the reset
C37_Witness ==
    /\ handled.op = "video"
    /\ ~handled.returned
    /\ handled.since = 10
    /\ handled.resets = 1
    /\ handled.calls = 12

====
